---- MODULE Spec2Model ----
(***************************************************************************)
(* Request execution and concurrency engine of hrequests-js: the call      *)
(* descriptor (TLSRequest), the session it is bound to (TLSSession over    *)
(* TLSClient), and the schedulers map, imap and imapEnum.                  *)
(*                                                                         *)
(* Node runs the program on one thread.  A step of the model is one        *)
(* synchronous run of code between two suspension points: the start of a   *)
(* window of calls, the completion of one transport round trip with the    *)
(* continuations that follow it, or the resumption of a scheduler.         *)
(***************************************************************************)
EXTENDS Integers, Sequences, FiniteSets

(* Bounds of the model. *)
MaxK == 3          \* descriptors handed to map: 0..MaxK of them
MaxStreamK == 2    \* descriptors handed to imap or imapEnum
MaxSeqK == 2       \* descriptors a caller runs through several operations
MaxSize == 3       \* the size option: 1..MaxSize, or 0 for "not given"
MaxRebuilds == 2   \* temporary sessions the caller's own send() calls rebuild
MaxWideK == 4      \* descriptors handed to imap or imapEnum, wide windows

(* null as the value of a Response-typed field or result, and as the value  *)
(* of TLSRequest.session.                                                  *)
NULL == [t |-> "null"]
NoSession == -1
NoDesc == -1
(* The value undefined where a string may stand: no string, since its    *)
(* one element is no character.                                            *)
NoProxy == <<"undefined">>
EmptyJar == {}

VARIABLES
    K,              \* requests.length
    size,           \* options.size (0: not given)
    hasHandler,     \* options.exceptionHandler is supplied
    raiseException, \* TLSRequest.raiseException, per descriptor
    _close,         \* TLSRequest._close: the descriptor owns its session
    session,        \* TLSRequest.session: a session id or NoSession
    response,       \* TLSRequest.response
    exception,      \* TLSRequest.exception
    st,             \* the descriptor's call: idle, inflight, ok, failed
    sentOn,         \* the session the descriptor's latest send() used
    closed,         \* TLSClient._closed, per session id
    destroys,       \* calls of bridge.destroySession, per session id
    nextId,         \* number of sessions constructed so far (ids are fresh)
    mode,           \* the scheduler that runs: map, imap, imapEnum
    i,              \* map: the loop variable i (start of the current window)
    run,            \* scheduler position: init, awaiting, resolved, rejected
    results,        \* map: what each callback of the window returned
    allResponses,   \* map: allResponses
    thrown,         \* the error map, or the caller's latest send(), rejected with
    handlerCalls,   \* invocations of exceptionHandler, per descriptor
    completed,      \* descriptors in the order their calls completed
    pending,        \* imap, imapEnum: pending (a promise is named by its descriptor)
    index,          \* imap, imapEnum: index, the next descriptor to admit
    winner,         \* the promise Promise.race settled with, or NoDesc
    yielded,        \* what the generator has yielded, in order
    proxy,          \* TLSClient.proxy of the caller's session
    cookies,        \* TLSClient.cookies of the caller's session: the jar
    transport,      \* the request payloads posted to the bridge, in order
    responseObject, \* executeRequest: the reply of the bridge being decoded
    outcome,        \* what the caller's latest operation returned or threw
    extracted,      \* the hops extractCookiesToJar ran for, during the latest call
    closeCalls,     \* calls of close() on the caller's session
    args,           \* the arguments of the caller's latest operation
    lazy,           \* the LazyTLSRequest of each descriptor: its fields, its getters
    render,         \* the BrowserSession of a render and the calls using it
    headers,        \* TLSClient._headers of the caller's session: the _store
    bridge          \* the BridgeManager singleton and the calls loading it

vars == <<K, size, hasHandler, raiseException, _close, session, response,
          exception, st, sentOn, closed, destroys, nextId, mode, i, run,
          results, allResponses, thrown, handlerCalls, completed,
          pending, index, winner, yielded,
          proxy, cookies, transport, responseObject, outcome, extracted,
          closeCalls, args, lazy, render, headers, bridge>>

engineVars == <<K, size, hasHandler, raiseException, _close, session, response,
                exception, st, sentOn, closed, destroys, nextId, mode, i, run,
                results, allResponses, thrown, handlerCalls, completed,
                pending, index, winner, yielded>>
clientVars == <<proxy, cookies, transport, responseObject, outcome, extracted,
                closeCalls, args>>
serviceVars == <<lazy, render, headers, bridge>>

descVars == <<session, response, exception, st, sentOn>>
sessVars == <<closed, destroys, nextId>>
inputVars == <<K, size, hasHandler, raiseException, mode>>
mapVars == <<i, allResponses, thrown>>
genVars == <<pending, index, winner, yielded>>

Desc == 0 .. (K - 1)

(* The session the caller supplies to the descriptors that borrow one. *)
Borrowed == 0

(* Values: a Response of descriptor d's call, the Response an exception    *)
(* handler returned for d, a FailedResponse carrying d's error, d's error. *)
Response(d) == [t |-> "Response", req |-> d, by |-> "call"]
HandlerResponse(d) == [t |-> "Response", req |-> d, by |-> "handler"]
FailedResponse(d) == [t |-> "FailedResponse", req |-> d, by |-> "call"]
Error(d) == [t |-> "Error", req |-> d]

Min(a, b) == IF a < b THEN a ELSE b

(* The latest call of descriptor d has settled. *)
Done(d) == st[d] \in {"ok", "failed"}
InFlight == {d \in Desc : st[d] = "inflight"}

(* A close() that notifies the bridge every time. *)
CloseAlwaysNotifies(cl, ds, s) ==
    <<[cl EXCEPT ![s] = TRUE], [ds EXCEPT ![s] = @ + 1]>>

(* TLSClient.close: the first close marks the client closed and notifies   *)
(* the bridge; later ones do nothing.  Yields <<closed, destroys>>.        *)
Close(cl, ds, s) ==
    IF ~cl[s] THEN <<[cl EXCEPT ![s] = TRUE], [ds EXCEPT ![s] = @ + 1]>>
    ELSE <<cl, ds>>

(* closeSession closing whatever session is bound, owned or not. *)
CloseSessionAnySession(sf, cl, ds, d) ==
    IF sf[d] # NoSession
    THEN <<[sf EXCEPT ![d] = NoSession],
           [cl EXCEPT ![sf[d]] = TRUE],
           [ds EXCEPT ![sf[d]] = IF cl[sf[d]] THEN @ ELSE @ + 1]>>
    ELSE <<sf, cl, ds>>

(* closeSession dropping the reference without closing the session. *)
CloseSessionForgetsClose(sf, cl, ds, d) ==
    IF _close[d] /\ sf[d] # NoSession
    THEN <<[sf EXCEPT ![d] = NoSession], cl, ds>>
    ELSE <<sf, cl, ds>>

(* TLSRequest.closeSession on descriptor d, given the session field and    *)
(* the sessions' state.  Yields <<session, closed, destroys>>.             *)
CloseSession(sf, cl, ds, d) ==
    IF _close[d] /\ sf[d] # NoSession
    THEN <<[sf EXCEPT ![d] = NoSession], Close(cl, ds, sf[d])[1], Close(cl, ds, sf[d])[2]>>
    ELSE <<sf, cl, ds>>

(* TLSRequest._buildSession() with no session argument: a new temporary    *)
(* session (a fresh id), owned by the descriptor.                          *)
NeedsBuild(b) == {d \in b : session[d] = NoSession}

(* A rebuild that binds the session constructed with the descriptor again. *)
FreshIdReuses(d, b) == d + 1

FreshId(d, b) == nextId + Cardinality({e \in NeedsBuild(b) : e < d})

(* The synchronous start of the calls of the descriptors in b, in index    *)
(* order: the scheduler's callback builds a session when the descriptor    *)
(* has none (send() would do the same), then send() issues                 *)
(* session.request and suspends.                                           *)
StartCalls(b) ==
    /\ session' = [d \in Desc |-> IF d \in NeedsBuild(b) THEN FreshId(d, b) ELSE session[d]]
    /\ _close' = [d \in Desc |-> IF d \in NeedsBuild(b) THEN TRUE ELSE _close[d]]
    /\ nextId' = nextId + Cardinality(NeedsBuild(b))
    /\ closed' = [s \in 0 .. (nextId' - 1) |-> IF s < nextId THEN closed[s] ELSE FALSE]
    /\ destroys' = [s \in 0 .. (nextId' - 1) |-> IF s < nextId THEN destroys[s] ELSE 0]
    /\ st' = [d \in Desc |-> IF d \in b THEN "inflight" ELSE st[d]]
    /\ sentOn' = [d \in Desc |-> IF d \in b THEN session'[d] ELSE sentOn[d]]

(* send() rethrowing whatever the raiseException flag says. *)
SendThrowsAlways(d, ok) == ~ok

(* TLSRequest.send after session.request settled (ok: it fulfilled).       *)
(* SendThrows: send() rejects; otherwise it resolves with the descriptor.  *)
SendThrows(d, ok) == ~ok /\ raiseException[d]
SendResponse(d, ok) == IF ok THEN Response(d) ELSE response[d]
SendException(d, ok) ==
    IF ~ok /\ ~raiseException[d] THEN Error(d) ELSE exception[d]

(* <<session, closed, destroys>> after the finally of send(): one         *)
(* closeSession.                                                           *)
SendCloses(d) == CloseSession(session, closed, destroys, d)

(* The same after the scheduler's callback ran its own finally on top of   *)
(* that of send(): closeSession twice.                                     *)
AfterSend(d) ==
    LET once == SendCloses(d)
    IN  CloseSession(once[1], once[2], once[3], d)

(* The continuation of send() for descriptor d once session.request has    *)
(* settled; after is the <<session, closed, destroys>> the finally blocks  *)
(* leave.                                                                  *)
FinishCall(d, ok, after) ==
    /\ response' = [response EXCEPT ![d] = SendResponse(d, ok)]
    /\ exception' = [exception EXCEPT ![d] = SendException(d, ok)]
    /\ session' = after[1]
    /\ closed' = after[2]
    /\ destroys' = after[3]
    /\ st' = [st EXCEPT ![d] = IF ok THEN "ok" ELSE "failed"]
    /\ UNCHANGED <<sentOn, nextId, _close>>

(* ------------------------------- map ----------------------------------- *)

(* const batchSize = size || requestList.length *)
batchSize == IF size = 0 THEN K ELSE size

(* requestList.slice(j, Math.min(j + batchSize, requestList.length)) *)
Batch(j) == j .. (Min(j + batchSize, K) - 1)

(* What the callback of map returns for d; REJECT when it throws. *)
REJECT == [t |-> "reject"]

(* A callback that captures every failure instead of rethrowing. *)
MapCallbackSwallows(d, ok, h) ==
    IF ok THEN Response(d) ELSE FailedResponse(d)

MapCallback(d, ok, h) ==
    IF ~SendThrows(d, ok) THEN SendResponse(d, ok)
    ELSE IF raiseException[d] THEN REJECT
    ELSE IF hasHandler THEN h
    ELSE FailedResponse(d)

MapInvokesHandler(d, ok) ==
    SendThrows(d, ok) /\ ~raiseException[d] /\ hasHandler

NotNull(r) == r # NULL

(* The window's results taken in the order the calls completed. *)
InBatchOfI(d) == d \in Batch(i)
WindowResultsByCompletion(j) ==
    LET order == SelectSeq(completed, InBatchOfI)
    IN  SelectSeq([k \in 1 .. Len(order) |-> results[order[k]]], NotNull)

(* results.filter(r => r !== null) of the window at j, in the order of     *)
(* Promise.all: the order of the batch.                                    *)
BatchSeq(j) == [k \in 1 .. Cardinality(Batch(j)) |-> j + k - 1]
WindowResults(j) ==
    SelectSeq([k \in 1 .. Cardinality(Batch(j)) |-> results[BatchSeq(j)[k]]], NotNull)

(* The loop of map from its test i < length at i = j: the next window is   *)
(* started, or map returns allResponses.                                   *)
EnterWindow(j) ==
    /\ i' = j
    /\ IF j < K
       THEN /\ run' = "awaiting"
            /\ StartCalls(Batch(j))
       ELSE /\ run' = "resolved"
            /\ UNCHANGED <<session, _close, nextId, closed, destroys, st, sentOn>>

(* map(requests, options) is called. *)
MapCall ==
    /\ mode = "map" /\ run = "init"
    /\ EnterWindow(0)
    /\ UNCHANGED <<K, size, hasHandler, raiseException, mode, response, exception,
                   results, allResponses, thrown, handlerCalls, completed,
          pending, index, winner, yielded>>

(* The call of descriptor d settles: send() finishes, the callback of map  *)
(* returns or throws, and Promise.all takes the result; the first          *)
(* rejection rejects Promise.all and with it map.                          *)
MapComplete(d, ok, h) ==
    /\ mode = "map" /\ st[d] = "inflight"
    /\ FinishCall(d, ok, AfterSend(d))
    /\ completed' = Append(completed, d)
    /\ results' = [results EXCEPT ![d] = MapCallback(d, ok, h)]
    /\ handlerCalls' = [handlerCalls EXCEPT
                          ![d] = IF MapInvokesHandler(d, ok) THEN @ + 1 ELSE @]
    /\ IF MapCallback(d, ok, h) = REJECT /\ run = "awaiting"
       THEN run' = "rejected" /\ thrown' = Error(d)
       ELSE UNCHANGED <<run, thrown>>
    /\ UNCHANGED <<inputVars, genVars, i, allResponses>>

(* Waiting for the first call of the window only. *)
WindowFulfilledFirst == \E d \in Batch(i) : Done(d) /\ results[d] # REJECT

(* Promise.all fulfilled: every callback of the window returned.  map      *)
(* pushes the window's results and goes round the loop.                    *)
WindowFulfilled == \A d \in Batch(i) : Done(d) /\ results[d] # REJECT
MapResume ==
    /\ mode = "map" /\ run = "awaiting"
    /\ WindowFulfilled
    /\ allResponses' = allResponses \o WindowResults(i)
    /\ EnterWindow(i + batchSize)
    /\ UNCHANGED <<inputVars, genVars, response, exception,
                   results, thrown, handlerCalls, completed>>

(* ------------------------ imap and imapEnum --------------------------- *)

(* const { size = 2, ... } = options *)
DefaultSize == 2
windowSize == IF size = 0 THEN DefaultSize ELSE size

(* What processRequest resolves with as the response for d.  It never      *)
(* rejects: whatever send() throws is captured.                            *)
StreamCallback(d, ok, h) ==
    IF ~SendThrows(d, ok) THEN SendResponse(d, ok)
    ELSE IF hasHandler THEN h
    ELSE FailedResponse(d)

StreamInvokesHandler(d, ok) == SendThrows(d, ok) /\ hasHandler

InSeq(p, d) == \E k \in 1 .. Len(p) : p[k] = d
PosIn(p, d) == CHOOSE k \in 1 .. Len(p) : p[k] = d
RemoveAt(p, k) == [n \in 1 .. (Len(p) - 1) |-> IF n < k THEN p[n] ELSE p[n + 1]]

(* Promise.race(p) at the moment it is called, the calls being in the      *)
(* states sf: the reactions of the promises already settled are queued in  *)
(* the order of p, so the first settled promise of p wins; with none       *)
(* settled the race stays open (NoDesc) until a promise of p settles.      *)
SettledIn(p, sf) == {k \in 1 .. Len(p) : sf[p[k]] \in {"ok", "failed"}}
RaceNow(p, sf) ==
    IF SettledIn(p, sf) = {} THEN NoDesc
    ELSE p[CHOOSE k \in SettledIn(p, sf) : \A n \in SettledIn(p, sf) : k <= n]

(* imapEnum: pending.findIndex(async (p) => ...).  The callback is async,  *)
(* so what findIndex tests is a Promise, which is truthy: the index found  *)
(* is that of the first element, whichever promise w won the race.         *)
CompletedIndex(p, w) == IF Len(p) > 0 THEN 1 ELSE 0

(* Removing the head of pending whichever promise won. *)
ResultIndexFirst(p, w) == 1

(* imap: result.index, the position the winner had in pending when the     *)
(* race was called.                                                        *)
ResultIndex(p, w) == PosIn(p, w)

(* if (index < requests.length) pending.push(processRequest(...)), with p  *)
(* the pending list after the removal, then the test of the while loop     *)
(* and the call of Promise.race.                                           *)
AdmitAndRace(p) ==
    /\ IF index < K
       THEN /\ StartCalls({index})
            /\ pending' = Append(p, index)
            /\ index' = index + 1
       ELSE /\ pending' = p
            /\ UNCHANGED <<index, session, _close, nextId, closed, destroys, st, sentOn>>
    /\ IF Len(pending') = 0
       THEN run' = "done" /\ winner' = NoDesc
       ELSE run' = "racing" /\ winner' = RaceNow(pending', st')

(* An initial batch taken from the end of the list. *)
InitialBatchLast == (K - Min(K, windowSize)) .. (K - 1)

(* The consumer asks for the first item: the generator body starts, admits *)
(* the initial batch and awaits the first race.                            *)
InitialBatch == 0 .. (Min(K, windowSize) - 1)
GenStart ==
    /\ mode \in {"imap", "imapEnum"} /\ run = "init"
    /\ StartCalls(InitialBatch)
    /\ pending' = [k \in 1 .. Cardinality(InitialBatch) |-> k - 1]
    /\ index' = Cardinality(InitialBatch)
    /\ IF Len(pending') = 0
       THEN run' = "done" /\ winner' = NoDesc
       ELSE run' = "racing" /\ winner' = RaceNow(pending', st')
    /\ UNCHANGED <<inputVars, mapVars, response, exception, results,
                   handlerCalls, completed, yielded>>

(* The call of descriptor d settles: send() finishes and processRequest    *)
(* resolves; an open race over a list that holds the promise settles with  *)
(* it.                                                                     *)
StreamComplete(d, ok, h) ==
    /\ mode \in {"imap", "imapEnum"} /\ st[d] = "inflight"
    /\ FinishCall(d, ok, AfterSend(d))
    /\ completed' = Append(completed, d)
    /\ results' = [results EXCEPT ![d] = StreamCallback(d, ok, h)]
    /\ handlerCalls' = [handlerCalls EXCEPT
                          ![d] = IF StreamInvokesHandler(d, ok) THEN @ + 1 ELSE @]
    /\ winner' = IF run = "racing" /\ winner = NoDesc /\ InSeq(pending, d)
                 THEN d ELSE winner
    /\ UNCHANGED <<inputVars, mapVars, run, pending, index, yielded>>

(* imapEnum resumes from await Promise.race: removes an entry of pending   *)
(* and yields [originalIndex, response] of the winner.                     *)
EnumResume ==
    /\ mode = "imapEnum" /\ run = "racing" /\ winner # NoDesc
    /\ pending' = IF CompletedIndex(pending, winner) # 0
                  THEN RemoveAt(pending, CompletedIndex(pending, winner))
                  ELSE pending
    /\ yielded' = Append(yielded, [index |-> winner, response |-> results[winner]])
    /\ run' = "yielded"
    /\ winner' = NoDesc
    /\ UNCHANGED <<inputVars, mapVars, descVars, sessVars, _close, results,
                   handlerCalls, completed, index>>

(* imap resumes from await Promise.race: removes the winner from pending,  *)
(* yields its response unless it is null, in which case it goes on to      *)
(* admit the next descriptor without suspending.                           *)
ImapResume ==
    /\ mode = "imap" /\ run = "racing" /\ winner # NoDesc
    /\ IF results[winner] # NULL
       THEN /\ pending' = RemoveAt(pending, ResultIndex(pending, winner))
            /\ yielded' = Append(yielded, results[winner])
            /\ run' = "yielded"
            /\ winner' = NoDesc
            /\ UNCHANGED <<index, session, _close, nextId, closed, destroys, st, sentOn>>
       ELSE /\ AdmitAndRace(RemoveAt(pending, ResultIndex(pending, winner)))
            /\ UNCHANGED yielded
    /\ UNCHANGED <<inputVars, mapVars, response, exception, results,
                   handlerCalls, completed>>

(* The consumer asks for the next item: the generator resumes after its    *)
(* yield.                                                                  *)
GenNext ==
    /\ mode \in {"imap", "imapEnum"} /\ run = "yielded"
    /\ AdmitAndRace(pending)
    /\ UNCHANGED <<inputVars, mapVars, response, exception, results,
                   handlerCalls, completed, yielded>>

(* The consumer stops iterating (break out of for await): the generator    *)
(* is closed at its yield.                                                 *)
GenReturn ==
    /\ mode \in {"imap", "imapEnum"} /\ run = "yielded"
    /\ run' = "returned"
    /\ UNCHANGED <<inputVars, mapVars, descVars, sessVars, _close, results,
                   handlerCalls, completed, pending, index, winner, yielded>>

(* --------------------- operations of the caller ------------------------ *)

(* The caller calls send() on descriptor d itself. *)
SendCall(d) ==
    /\ mode = "direct" /\ st[d] # "inflight"
    /\ NeedsBuild({d}) # {} => nextId < K + 1 + MaxRebuilds
    /\ StartCalls({d})
    /\ UNCHANGED <<inputVars, mapVars, genVars, run, response, exception, results,
                   handlerCalls, completed>>

(* That send() settles: it resolves, or rejects to the caller when the     *)
(* call failed and raiseException is set.                                  *)
SendComplete(d, ok) ==
    /\ mode = "direct" /\ st[d] = "inflight"
    /\ FinishCall(d, ok, SendCloses(d))
    /\ thrown' = IF SendThrows(d, ok) THEN Error(d) ELSE NULL
    /\ UNCHANGED <<inputVars, genVars, i, allResponses, run, results,
                   handlerCalls, completed>>

(* The caller calls closeSession() on descriptor d. *)
CallerCloseSession(d) ==
    /\ mode = "direct"
    /\ session' = SendCloses(d)[1]
    /\ closed' = SendCloses(d)[2]
    /\ destroys' = SendCloses(d)[3]
    /\ UNCHANGED <<inputVars, mapVars, genVars, run, response, exception, st, sentOn,
                   nextId, _close, results, handlerCalls, completed>>

(* The locals of a scheduler call that is over are gone; those of the     *)
(* next one are fresh.  The descriptors and the sessions stay as they are. *)
FreshLocals ==
    /\ run' = "init" /\ i' = 0
    /\ st' = [d \in Desc |-> "idle"]
    /\ sentOn' = [d \in Desc |-> NoSession]
    /\ results' = [d \in Desc |-> NULL]
    /\ allResponses' = <<>> /\ thrown' = NULL
    /\ handlerCalls' = [d \in Desc |-> 0]
    /\ completed' = <<>>
    /\ pending' = <<>> /\ index' = 0 /\ winner' = NoDesc /\ yielded' = <<>>
    /\ UNCHANGED <<K, raiseException, _close, session, response, exception,
                   closed, destroys, nextId>>

(* A scheduler call is over (map settled, the generator finished or was    *)
(* closed) and none of its calls is in flight: the caller has the          *)
(* descriptors back.                                                       *)
SchedulerOver ==
    /\ mode \in {"map", "imap", "imapEnum"}
    /\ run \in {"resolved", "rejected", "done", "returned"}
    /\ InFlight = {}
    /\ mode' = "direct" /\ size' = 0 /\ hasHandler' = FALSE
    /\ FreshLocals

(* The caller, holding the descriptors with no call in flight, hands them  *)
(* to scheduler m with the options sz and hh.                              *)
CallScheduler(m, sz, hh) ==
    /\ mode = "direct" /\ InFlight = {}
    /\ mode' = m /\ size' = sz /\ hasHandler' = hh
    /\ FreshLocals

(* ------------------- constructing a descriptor ------------------------- *)

MaxCalls == 2

(* The keys TLSRequest's constructor hands to the session's constructor. *)
SESSION_KWARGS ==
    {"browser", "version", "os", "ja3String", "h2Settings", "additionalDecode",
     "pseudoHeaderOrder", "priorityFrames", "headerOrder", "forceHttp1",
     "catchPanics", "debug", "proxy", "proxies", "certificatePinning",
     "disableIpv6", "detectEncoding"}

(* The fields of TLSSessionOptions: what a session is constructed from. *)
TLSSessionOptions ==
    {"browser", "version", "os", "headers", "temp", "verify", "timeout",
     "clientIdentifier", "randomTlsExtensionOrder", "forceHttp1", "catchPanics",
     "debug", "proxy", "cookies", "certificatePinning", "disableIpv6",
     "detectEncoding", "ja3String", "h2Settings", "h2SettingsOrder",
     "supportedSignatureAlgorithms", "supportedDelegatedCredentialsAlgorithms",
     "supportedVersions", "keyShareCurves", "certCompressionAlgo",
     "additionalDecode", "pseudoHeaderOrder", "connectionFlow", "priorityFrames",
     "headerOrder", "headerPriority"}

(* The fields of RequestOptions: what one request takes. *)
RequestOptions ==
    {"data", "files", "headers", "cookies", "json", "allowRedirects", "history",
     "verify", "timeout", "proxy", "params", "render", "browser"}

(* The option keys the constructor is called with here: an identity option, *)
(* the proxy, two fields of the custom TLS profile and a request option.   *)
OptionKeys == {"browser", "proxy", "ja3String", "keyShareCurves", "params"}

(* An options object: each key is absent, present with the value           *)
(* undefined, or present with a defined value.                             *)
Options == [OptionKeys -> {"absent", "undefined", "defined"}]

(* Object.entries(restOptions): the keys that are present. *)
Entries(options) == {key \in OptionKeys : options[key] # "absent"}

(* The keys the constructor throws the TypeError for. *)
Conflict(options, sess) ==
    {key \in Entries(options) \cap SESSION_KWARGS :
        sess # NoSession /\ options[key] = "defined"}

sessKwargs(options) == Entries(options) \cap SESSION_KWARGS
requestKwargs(options) == Entries(options) \ SESSION_KWARGS

(* new TLSRequest(method, url, options, session): the TypeError, or the    *)
(* descriptor, bound to the session given or to a new temporary one        *)
(* (_buildSession).  The descriptor is handed to the caller.               *)
Construct(options, raise, sess) ==
    /\ mode = "direct"
    /\ sess = NoSession => nextId < K + 1 + MaxCalls
    /\ args' = [op |-> "new TLSRequest", options |-> options,
                raiseException |-> raise, session |-> sess]
    /\ IF Conflict(options, sess) # {}
       THEN /\ outcome' = [t |-> "TypeError", keys |-> Conflict(options, sess)]
            /\ UNCHANGED sessVars
       ELSE /\ outcome' = [t |-> "TLSRequest",
                           session |-> IF sess = NoSession THEN nextId ELSE sess,
                           _close |-> (sess = NoSession),
                           raiseException |-> raise,
                           sessKwargs |-> sessKwargs(options),
                           kwargs |-> requestKwargs(options)]
            /\ IF sess = NoSession
               THEN /\ nextId' = nextId + 1
                    /\ closed' = [s \in 0 .. nextId |-> IF s < nextId THEN closed[s] ELSE FALSE]
                    /\ destroys' = [s \in 0 .. nextId |-> IF s < nextId THEN destroys[s] ELSE 0]
               ELSE UNCHANGED sessVars
    /\ UNCHANGED <<inputVars, mapVars, genVars, descVars, _close, run, results,
                   handlerCalls, completed>>
    /\ UNCHANGED <<proxy, cookies, transport, responseObject, extracted, closeCalls>>
    /\ UNCHANGED serviceVars

(* ----------------------- the proxy of a request ------------------------- *)

(* A string is the sequence of its characters. *)
Digits == {"0", "1", "2", "3", "4", "5", "6", "7", "8", "9"}
Prefix(str, n) == SubSeq(str, 1, n)
Suffix(str, n) == SubSeq(str, n + 1, Len(str))
StartsWith(str, pre) == Len(str) >= Len(pre) /\ Prefix(str, Len(pre)) = pre

SUPPORTED_PROXIES ==
    {<<"h", "t", "t", "p">>, <<"h", "t", "t", "p", "s">>,
     <<"s", "o", "c", "k", "s", "5">>}

(* (?:[^:]+:[^@]+@) : a credentials part. *)
Credentials(str) ==
    \E c \in 2 .. (Len(str) - 2) :
        /\ str[c] = ":" /\ str[Len(str)] = "@"
        /\ \A j \in 1 .. (c - 1) : str[j] # ":"
        /\ \A j \in (c + 1) .. (Len(str) - 1) : str[j] # "@"

(* (?::\d+) : a port part. *)
Port(str) ==
    /\ Len(str) >= 2 /\ str[1] = ":"
    /\ \A j \in 2 .. Len(str) : str[j] \in Digits

(* .*? : any characters but line terminators. *)
AnyChars(str) == \A j \in 1 .. Len(str) : str[j] # "\n"

(* PROXY_PATTERN.test(str) for                                             *)
(* ^(?:http|https|socks5)://(?:[^:]+:[^@]+@)?.*?(?::\d+)?$                 *)
PROXY_PATTERN(str) ==
    \E scheme \in SUPPORTED_PROXIES :
        /\ StartsWith(str, scheme \o <<":", "/", "/">>)
        /\ LET rest == Suffix(str, Len(scheme) + 3)
           IN \E a \in 0 .. Len(rest), b \in 0 .. Len(rest) :
                 /\ a <= b
                 /\ a = 0 \/ Credentials(Prefix(rest, a))
                 /\ AnyChars(SubSeq(rest, a + 1, b))
                 /\ b = Len(rest) \/ Port(Suffix(rest, b))

(* verifyProxy: throws ProxyFormatException. *)
VerifyProxyThrows(str) == ~PROXY_PATTERN(str)

(* The proxy strings a caller passes here. *)
HttpHost == <<"h", "t", "t", "p", ":", "/", "/", "h">>
HttpsCredentialsHostPort ==
    <<"h", "t", "t", "p", "s", ":", "/", "/", "u", ":", "p", "@", "h", ":", "8", "0">>
Socks6X == <<"s", "o", "c", "k", "s", "6", ":", "/", "/", "x">>
HttpHostBadPort == <<"h", "t", "t", "p", ":", "/", "/", "h", ":", "x">>
EmptyString == <<>>
Proxies == {HttpHost, HttpsCredentialsHostPort, Socks6X, HttpHostBadPort,
            EmptyString}

(* if (proxy): undefined and the empty string are falsy. *)
Truthy(p) == p # NoProxy /\ p # EmptyString

(* buildRequest: proxy || this.proxy *)
proxyUrl(p) == IF Truthy(p) THEN p ELSE proxy

(* ------------------- decoding the transport's reply -------------------- *)

MaxHops == 2

(* A Set-Cookie string: the cookie it sets, or one tough-cookie refuses    *)
(* (setCookie throws).                                                     *)
CookieNames == {"a", "b"}
CookieDomains == {"x.org", "y.org"}
Cookie(n, d, v) == [name |-> n, domain |-> d, path |-> "/", value |-> v]
InvalidCookie == [name |-> "", domain |-> "", path |-> "", value |-> ""]
CookieKey(c) == <<c.name, c.domain, c.path>>

(* A setCookie that keeps the cookie the jar already has. *)
SetCookieKeepsFirst(jar, c) ==
    IF \E e \in jar : CookieKey(e) = CookieKey(c) THEN jar ELSE jar \cup {c}

(* CookieJar.setCookie: the cookie replaces the one of its name, domain    *)
(* and path.                                                               *)
SetCookie(jar, c) == {e \in jar : CookieKey(e) # CookieKey(c)} \cup {c}

(* extractCookiesToJar: every Set-Cookie string of the headers is set in   *)
(* the jar, in order; the ones setCookie throws for are passed over.       *)
RECURSIVE ExtractCookiesToJar(_, _)
ExtractCookiesToJar(jar, setCookie) ==
    IF setCookie = <<>> THEN jar
    ELSE ExtractCookiesToJar(
             IF Head(setCookie) = InvalidCookie THEN jar
             ELSE SetCookie(jar, Head(setCookie)),
             Tail(setCookie))

(* The request's URL, the target the transport reports for a hop and the   *)
(* Location header of a hop ("" where there is none).                      *)
RequestUrl == "https://a/"
Targets == {"", "https://a/t"}
Locations == {"", "https://a/l"}

(* The Set-Cookie headers of a hop. *)
SetCookies ==
    {<<>>,
     <<Cookie("a", "x.org", "1")>>,
     <<Cookie("a", "x.org", "2"), Cookie("a", "x.org", "3")>>,
     <<Cookie("b", "x.org", "1")>>,
     <<InvalidCookie, Cookie("a", "y.org", "1")>>}

(* A hop of the reply: status 0 is the transport's failure, its body the   *)
(* diagnostic text.                                                        *)
Hops ==
    {[status |-> st_, body |-> IF st_ = 0 THEN "dial tcp: timeout" ELSE "text",
      target |-> tg, Location |-> lo, setCookie |-> sc] :
        st_ \in {0, 200}, tg \in Targets, lo \in Locations, sc \in SetCookies}

ClientException(text) == [t |-> "ClientException", message |-> text]

(* buildResponseObj that takes status 0 for a status. *)
StatusZeroThrowsNever(res) == FALSE

(* buildResponseObj: if (res.status === 0) throw *)
StatusZeroThrows(res) == res.status = 0

(* buildResponseObj: the BridgeResponse of one hop. *)
buildResponseObj(url, res) ==
    [url |-> IF res.target # "" THEN res.target ELSE url,
     statusCode |-> res.status,
     cookies |-> ExtractCookiesToJar(EmptyJar, res.setCookie)]

(* The URL buildResponse hands to buildResponseObj for hop k. *)
itemUrl(resps, k) ==
    IF k > 1 /\ resps[k - 1].Location # "" THEN resps[k - 1].Location
    ELSE RequestUrl

(* A loop that extracts the cookies of the final hop only. *)
RECURSIVE HistoryLoopFinalHopOnly(_, _, _, _, _)
HistoryLoopFinalHopOnly(resps, k, jar, history, done) ==
    IF k > Len(resps)
    THEN [cookies |-> jar, history |-> history, extracted |-> done, error |-> NULL]
    ELSE IF StatusZeroThrows(resps[k])
    THEN [cookies |-> jar, history |-> history, extracted |-> done,
          error |-> ClientException(IF resps[k].body # "" THEN resps[k].body
                                    ELSE "Request failed")]
    ELSE HistoryLoopFinalHopOnly(resps, k + 1,
             IF k = Len(resps) THEN ExtractCookiesToJar(jar, resps[k].setCookie) ELSE jar,
             Append(history, buildResponseObj(itemUrl(resps, k), resps[k])),
             IF k = Len(resps) THEN Append(done, k) ELSE done)

(* buildResponse's loop from hop k on: the jar, the hops built, the hops   *)
(* extractCookiesToJar ran for, and the exception thrown, if any.          *)
RECURSIVE HistoryLoop(_, _, _, _, _)
HistoryLoop(resps, k, jar, history, done) ==
    IF k > Len(resps)
    THEN [cookies |-> jar, history |-> history, extracted |-> done, error |-> NULL]
    ELSE IF StatusZeroThrows(resps[k])
    THEN [cookies |-> jar, history |-> history, extracted |-> done,
          error |-> ClientException(IF resps[k].body # "" THEN resps[k].body
                                    ELSE "Request failed")]
    ELSE HistoryLoop(resps, k + 1,
                     ExtractCookiesToJar(jar, resps[k].setCookie),
                     Append(history, buildResponseObj(itemUrl(resps, k), resps[k])),
                     Append(done, k))

(* buildResponse and the Response session.request makes of it: the last    *)
(* hop built, the others as its history.  An empty history is a TypeError, *)
(* which executeRequest wraps.                                             *)
BuildResponse(reply, jar) ==
    LET resps == IF reply.isHistory THEN reply.history ELSE <<reply.response>>
        loop == HistoryLoop(resps, 1, jar, <<>>, <<>>)
        last == loop.history[Len(loop.history)]
    IN [cookies |-> loop.cookies,
        extracted |-> loop.extracted,
        outcome |->
            IF loop.error # NULL THEN loop.error
            ELSE IF resps = <<>> THEN ClientException("Request failed: TypeError")
            ELSE [t |-> "Response", url |-> last.url, statusCode |-> last.statusCode,
                  cookies |-> last.cookies,
                  history |-> SubSeq(loop.history, 1, Len(loop.history) - 1)]]

(* The replies of the transport: one response, or a history of hops. *)
SeqsUpTo(S, n) == UNION {[1 .. m -> S] : m \in 0 .. n}
Replies ==
    {[isHistory |-> FALSE, response |-> h, history |-> <<>>] : h \in Hops}
    \cup {[isHistory |-> TRUE, response |-> NULL, history |-> hs] :
             hs \in SeqsUpTo(Hops, MaxHops)}

(* Replies of one hop that sets no cookie. *)
PlainReplies ==
    {r \in Replies : ~r.isHistory /\ r.response.setCookie = <<>>
                     /\ r.response.target = "" /\ r.response.Location = ""}

(* ------------------------- looking a cookie up ------------------------- *)

(* An argument that was not given. *)
undefined == "<undefined>"

(* _findNoDuplicates: the cookies of the name, under the domain and the    *)
(* path when given; the value of the only one, CookieConflictError for     *)
(* several, a plain Error for none.                                        *)
Matches(jar, name, domain, path) ==
    {c \in jar : /\ c.name = name
                 /\ domain = undefined \/ c.domain = domain
                 /\ path = undefined \/ c.path = path}
_findNoDuplicates(jar, name, domain, path) ==
    LET found == Matches(jar, name, domain, path) IN
    IF Cardinality(found) >= 2 THEN [t |-> "CookieConflictError"]
    ELSE IF found = {} THEN [t |-> "Error"]
    ELSE [t |-> "value", value |-> (CHOOSE c \in found : TRUE).value]

(* RequestsCookieJar.get: whatever _findNoDuplicates throws is caught and  *)
(* the default returned.                                                   *)
Get(jar, name, defaultValue, domain, path) ==
    LET found == _findNoDuplicates(jar, name, domain, path) IN
    [t |-> "returned",
     value |-> IF found.t = "value" THEN found.value ELSE defaultValue]

(* The caller calls session.cookies.get(name, defaultValue, domain, path). *)
JarGet(name, defaultValue, domain, path) ==
    /\ mode = "direct"
    /\ args' = [op |-> "get", name |-> name, defaultValue |-> defaultValue,
                domain |-> domain, path |-> path]
    /\ outcome' = Get(cookies, name, defaultValue, domain, path)
    /\ UNCHANGED <<proxy, cookies, transport, responseObject, extracted, closeCalls>>
    /\ UNCHANGED serviceVars
    /\ UNCHANGED engineVars

(* ------------------- requests on the caller's session ------------------ *)

(* The start of executeRequest with the option proxy: p.  buildRequest      *)
(* validates the proxy and makes the payload, which fetch posts to the     *)
(* bridge.                                                                 *)
ExecuteRequest(p) ==
    /\ outcome.t # "pending"
    /\ responseObject' = NULL /\ extracted' = <<>>
    /\ IF Truthy(proxyUrl(p)) /\ VerifyProxyThrows(proxyUrl(p))
       THEN /\ outcome' = [t |-> "ProxyFormatException"]
            /\ transport' = transport
       ELSE /\ Len(transport) < MaxCalls
            /\ transport' = Append(transport, [sessionId |-> Borrowed,
                                               proxyUrl |-> proxyUrl(p)])
            /\ outcome' = [t |-> "pending"]
    /\ UNCHANGED <<proxy, cookies, closeCalls>>
    /\ UNCHANGED serviceVars

(* The caller calls session.request (get, post, ...). *)
SessionRequest(p) ==
    /\ mode = "direct" /\ InFlight = {}
    /\ ExecuteRequest(p)
    /\ args' = [op |-> "request", proxy |-> p]
    /\ UNCHANGED engineVars

(* The caller calls send({proxy: p}) on a descriptor bound to the session. *)
DescSend(d, p) ==
    /\ session[d] = Borrowed
    /\ SendCall(d)
    /\ ExecuteRequest(p)
    /\ args' = [op |-> "send", req |-> d, proxy |-> p]

(* session.request has settled and send() goes on. *)
DescSettle(d) ==
    /\ outcome.t # "pending"
    /\ SendComplete(d, outcome.t = "Response")
    /\ UNCHANGED <<clientVars, serviceVars>>

(* The bridge's reply arrives and is decoded. *)
Reply(r) ==
    /\ outcome.t = "pending"
    /\ responseObject' = r
    /\ outcome' = BuildResponse(r, cookies).outcome
    /\ cookies' = BuildResponse(r, cookies).cookies
    /\ extracted' = BuildResponse(r, cookies).extracted
    /\ UNCHANGED <<proxy, transport, closeCalls, args>>
    /\ UNCHANGED serviceVars
    /\ UNCHANGED engineVars

(* fetch rejects, or the bridge answers with a non-success status. *)
ReplyFails ==
    /\ outcome.t = "pending"
    /\ outcome' = ClientException("Bridge request failed")
    /\ UNCHANGED <<proxy, cookies, transport, responseObject, extracted, closeCalls, args>>
    /\ UNCHANGED serviceVars
    /\ UNCHANGED engineVars

(* The caller calls close() on the session. *)
SessionClose ==
    /\ mode = "direct"
    /\ closeCalls < MaxCalls
    /\ closeCalls' = closeCalls + 1
    /\ closed' = Close(closed, destroys, Borrowed)[1]
    /\ destroys' = Close(closed, destroys, Borrowed)[2]
    /\ UNCHANGED <<proxy, cookies, transport, responseObject, outcome, extracted, args>>
    /\ UNCHANGED serviceVars
    /\ UNCHANGED <<inputVars, mapVars, genVars, descVars, nextId, _close, run,
                   results, handlerCalls, completed>>

(* ------------------------- the transport bridge ------------------------ *)

MaxBridgeCalls == 3

(* What GetOpenPort() may return: 0 for none, else a free port. *)
OpenPorts == {0, 4001, 4002}

(* executeRequest up to its first await: with no port it awaits            *)
(* bridge.load(), which awaits ensureBridge(); else it builds the request  *)
(* and posts it to the bridge's port.                                      *)
ExecuteCall ==
    /\ mode = "direct"
    /\ Len(bridge.calls) < MaxBridgeCalls
    /\ bridge' = [bridge EXCEPT !.calls =
                     Append(@, IF bridge.port = 0 THEN [pc |-> "ensureBridge", port |-> 0]
                               ELSE [pc |-> "fetch", port |-> bridge.port])]
    /\ UNCHANGED <<clientVars, lazy, render, headers>>
    /\ UNCHANGED engineVars

(* load() after ensureBridge(): the library is loaded, this.port =          *)
(* GetOpenPort(), load throws on 0 and else calls StartServer.             *)
LoadResume(c, p) ==
    /\ c \in 1 .. Len(bridge.calls) /\ bridge.calls[c].pc = "ensureBridge"
    /\ bridge' = [bridge EXCEPT !.port = p,
                                !.starts = IF p = 0 THEN @ ELSE @ + 1,
                                !.calls[c].pc = IF p = 0 THEN "thrown" ELSE "loaded"]
    /\ UNCHANGED <<clientVars, lazy, render, headers>>
    /\ UNCHANGED engineVars

(* executeRequest after load(): the request is built and posted to         *)
(* bridge.getPort().                                                       *)
ExecuteResume(c) ==
    /\ c \in 1 .. Len(bridge.calls) /\ bridge.calls[c].pc = "loaded"
    /\ bridge' = [bridge EXCEPT !.calls[c] = [pc |-> "fetch", port |-> bridge.port]]
    /\ UNCHANGED <<clientVars, lazy, render, headers>>
    /\ UNCHANGED engineVars

(* ------------------------- the header map ------------------------------ *)

(* Header names as callers spell them, and String.toLowerCase on them. *)
HeaderKeys == {"accept", "Accept", "content-type", "Content-Type"}
toLowerCase(k) == IF k \in {"accept", "Accept"} THEN "accept" ELSE "content-type"

(* CaseInsensitiveDict: _store maps a lower-cased name to [key, value].    *)
EmptyDict == [n \in {} |-> <<>>]
DictHas(store, k) == toLowerCase(k) \in DOMAIN store
DictGet(store, k) == IF DictHas(store, k) THEN store[toLowerCase(k)][2] ELSE undefined
DictSize(store) == Cardinality(DOMAIN store)

(* A set that keeps the key under which the name was first stored. *)
DictSetKeepsFirstCasing(store, k, v) ==
    [n \in DOMAIN store \cup {toLowerCase(k)} |->
        IF n = toLowerCase(k)
        THEN (IF n \in DOMAIN store THEN <<store[n][1], v>> ELSE <<k, v>>)
        ELSE store[n]]

(* set(key, value): this._store.set(key.toLowerCase(), [key, value]) *)
DictSet(store, k, v) ==
    [n \in DOMAIN store \cup {toLowerCase(k)} |->
        IF n = toLowerCase(k) THEN <<k, v>> ELSE store[n]]

(* delete(key): this._store.delete(key.toLowerCase()) *)
DictDelete(store, k) == [n \in DOMAIN store \ {toLowerCase(k)} |-> store[n]]

(* update(other): set for every entry of other, in its order. *)
RECURSIVE DictUpdate(_, _)
DictUpdate(store, entries) ==
    IF entries = <<>> THEN store
    ELSE DictUpdate(DictSet(store, Head(entries)[1], Head(entries)[2]), Tail(entries))

(* entries() / toObject(): the stored [key, value] pairs. keys(): the keys. *)
DictEntries(store) == {store[n] : n \in DOMAIN store}
DictKeys(store) == {e[1] : e \in DictEntries(store)}
toObject(store) == DictEntries(store)

(* new CaseInsensitiveDict(dict): set for every entry of dict. *)
DictCopy(store) ==
    [n \in {toLowerCase(k) : k \in DictKeys(store)} |->
        CHOOSE e \in DictEntries(store) : toLowerCase(e[1]) = n]

(* The header objects a caller passes to update or with a call: entries    *)
(* in the order of the object's keys.                                      *)
HeaderObjects ==
    { <<>>,
      << <<"accept", "2">> >>,
      << <<"Accept", "3">> >>,
      << <<"content-type", "text/plain">> >>,
      << <<"Content-Type", "text/html">> >>,
      << <<"accept", "2">>, <<"Accept", "3">> >>,
      << <<"Accept", "3">>, <<"content-type", "text/plain">> >> }

(* The content type buildRequest derives from the body: none, that of a    *)
(* json option, that of a data object.                                     *)
ContentTypes == {undefined, "application/json", "application/x-www-form-urlencoded"}

(* session.headers.set(k, v) *)
HeadersSet(k, v) ==
    /\ mode = "direct"
    /\ headers' = DictSet(headers, k, v)
    /\ args' = [op |-> "set", key |-> k, value |-> v]
    /\ outcome' = [t |-> "done", was |-> headers]
    /\ UNCHANGED <<proxy, cookies, transport, responseObject, extracted, closeCalls>>
    /\ UNCHANGED <<lazy, render, bridge>>
    /\ UNCHANGED engineVars

(* session.headers.delete(k) *)
HeadersDelete(k) ==
    /\ mode = "direct"
    /\ headers' = DictDelete(headers, k)
    /\ args' = [op |-> "delete", key |-> k]
    /\ outcome' = [t |-> "done", was |-> headers]
    /\ UNCHANGED <<proxy, cookies, transport, responseObject, extracted, closeCalls>>
    /\ UNCHANGED <<lazy, render, bridge>>
    /\ UNCHANGED engineVars

(* session.headers.update(other) *)
HeadersUpdate(other) ==
    /\ mode = "direct"
    /\ headers' = DictUpdate(headers, other)
    /\ args' = [op |-> "update", headers |-> other]
    /\ outcome' = [t |-> "done", was |-> headers]
    /\ UNCHANGED <<proxy, cookies, transport, responseObject, extracted, closeCalls>>
    /\ UNCHANGED <<lazy, render, bridge>>
    /\ UNCHANGED engineVars

(* A merge in which the session's headers are written over the call's. *)
mergedHeadersSessionWins(store, given, perCall) ==
    LET call == DictUpdate(EmptyDict, perCall)
    IN  [n \in DOMAIN store \cup DOMAIN call |->
            IF n \in DOMAIN store THEN store[n] ELSE call[n]]

(* buildRequest, "Prepare headers": the call's headers alone when the      *)
(* session has none; the session's own map when the call gives none; else  *)
(* a copy of the session's map updated with the call's.                    *)
mergedHeaders(store, given, perCall) ==
    IF DictSize(store) = 0 THEN DictUpdate(EmptyDict, perCall)
    ELSE IF ~given THEN store
    ELSE DictUpdate(DictCopy(store), perCall)

(* Whether mergedHeaders is the session's map itself. *)
Aliased(store, given) == DictSize(store) # 0 /\ ~given

(* "Set content type if needed" *)
WithContentType(store, contentType) ==
    IF contentType # undefined /\ ~DictHas(store, "Content-Type")
    THEN DictSet(store, "Content-Type", contentType)
    ELSE store

(* buildRequest(method, url, {headers, json / data}): the payload's        *)
(* headers are mergedHeaders.toObject(); what is set on mergedHeaders is   *)
(* set on the session's map when the two are one object.                   *)
BuildRequest(given, perCall, contentType) ==
    /\ mode = "direct"
    /\ given \/ perCall = <<>>
    /\ LET merged == WithContentType(mergedHeaders(headers, given, perCall), contentType)
       IN  /\ headers' = IF Aliased(headers, given) THEN merged ELSE headers
           /\ outcome' = [t |-> "request", headers |-> toObject(merged), was |-> headers]
    /\ args' = [op |-> "buildRequest", given |-> given, headers |-> perCall,
                contentType |-> contentType]
    /\ UNCHANGED <<proxy, cookies, transport, responseObject, extracted, closeCalls>>
    /\ UNCHANGED <<lazy, render, bridge>>
    /\ UNCHANGED engineVars

(* ------------------------- the lazy request --------------------------- *)

(* A lazy request whose descriptor keeps the default of raiseException. *)
LazyRaiseExceptionDefault == TRUE

(* new TLSRequest(method, url, {...options, raiseException: false}, ...) *)
LazyRaiseException == FALSE

(* A LazyTLSRequest not constructed yet; once made: its _complete flag and *)
(* the accessors whose callers are suspended in join().                    *)
NotMade == [made |-> FALSE, _complete |-> FALSE, waiting |-> {}]
Accessors == {"getResponse", "getException"}

(* The constructor: the descriptor is made and _send() runs up to its      *)
(* await of request.send(), which has issued the call.                     *)
LazyConstruct(d) ==
    /\ ~lazy[d].made
    /\ SendCall(d)
    /\ lazy' = [lazy EXCEPT ![d].made = TRUE]
    /\ UNCHANGED <<clientVars, render, headers, bridge>>

(* _send() after request.send() settled: this._complete = true, and the    *)
(* promise of _send() resolves.                                            *)
LazySent(d) ==
    /\ lazy[d].made /\ Done(d) /\ ~lazy[d]._complete
    /\ lazy' = [lazy EXCEPT ![d]._complete = TRUE]
    /\ UNCHANGED <<clientVars, render, headers, bridge>>
    /\ UNCHANGED engineVars

(* getResponse() / getException() up to the await of join(). *)
LazyGet(d, a) ==
    /\ lazy[d].made /\ a \notin lazy[d].waiting
    /\ lazy' = [lazy EXCEPT ![d].waiting = @ \cup {a}]
    /\ args' = [op |-> a, req |-> d]
    /\ outcome' = [t |-> "pending"]
    /\ UNCHANGED <<proxy, cookies, transport, responseObject, extracted, closeCalls>>
    /\ UNCHANGED <<render, headers, bridge>>
    /\ UNCHANGED engineVars

(* The accessor goes on once the promise of _send() has resolved and       *)
(* returns the descriptor's response or exception.                         *)
LazyGot(d, a) ==
    /\ lazy[d].made /\ a \in lazy[d].waiting /\ lazy[d]._complete
    /\ lazy' = [lazy EXCEPT ![d].waiting = @ \ {a}]
    /\ outcome' = [t |-> a, req |-> d,
                   value |-> IF a = "getResponse" THEN response[d] ELSE exception[d]]
    /\ UNCHANGED <<proxy, cookies, transport, responseObject, extracted, closeCalls, args>>
    /\ UNCHANGED <<render, headers, bridge>>
    /\ UNCHANGED engineVars

(* ------------------------- rendering a page --------------------------- *)

(* RequestsCookieJar.update: every cookie of the other jar is set. *)
Update(jar, other) ==
    {e \in jar : \A c \in other : CookieKey(c) # CookieKey(e)} \cup other

(* The cookies a rendered page sets in the browser context. *)
PageSets == {EmptyJar, {Cookie("a", "x.org", "9")}, {Cookie("b", "x.org", "9")}}

(* render(): a BrowserSession whose context holds the session's cookies    *)
(* (setCookies) and, after goto, those the page set.  closers are the      *)
(* calls of close() and where each stands; the counters count the calls    *)
(* of session.cookies.update, context.close and browserInstance.close.     *)
Rendered(how, temp, hasBrowser, pageSet) ==
    [how |-> how, temp |-> temp, browserInstance |-> hasBrowser,
     context |-> "open", _closed |-> FALSE,
     pageCookies |-> Update(cookies, pageSet), content |-> "<html>rendered</html>",
     closers |-> <<>>, updates |-> 0, contextCloses |-> 0, browserCloses |-> 0]

(* close() from its call to its first await: nothing to do when _closed    *)
(* is set, else it awaits getCookies().                                    *)
CloseCalled(r) ==
    [r EXCEPT !.closers = Append(@, IF r._closed THEN "done" ELSE "cookies")]

(* A close() that leaves the session's jar alone. *)
CloseKeepsJar(jar, r) == jar

(* close(): this.session.cookies.update(cookiejar) *)
CloseUpdatesJar(jar, r) == Update(jar, r.pageCookies)

(* close() from one await to the next, for the call c: with the cookies    *)
(* read it updates the session, sets _closed and closes the context; then  *)
(* it closes the browser, if there is one; then it returns.                *)
CloseStep(r, c) ==
    IF r.closers[c] = "cookies"
    THEN [r EXCEPT !.closers[c] = "context", !.updates = @ + 1, !._closed = TRUE,
                   !.context = "closed", !.contextCloses = @ + 1]
    ELSE IF r.closers[c] = "context"
    THEN IF r.browserInstance
         THEN [r EXCEPT !.closers[c] = "browser", !.browserCloses = @ + 1]
         ELSE [r EXCEPT !.closers[c] = "done"]
    ELSE [r EXCEPT !.closers[c] = "done"]

(* session.request with the render option, up to the await of close(): the *)
(* page is rendered, its content and cookies are read, close() is called.  *)
RenderRequest(temp, hasBrowser, pageSet) ==
    /\ mode = "direct" /\ render = NULL
    /\ render' = CloseCalled(Rendered("request", temp, hasBrowser, pageSet))
    /\ args' = [op |-> "request", render |-> TRUE]
    /\ outcome' = [t |-> "pending"]
    /\ UNCHANGED <<proxy, cookies, transport, responseObject, extracted, closeCalls>>
    /\ UNCHANGED <<lazy, headers, bridge>>
    /\ UNCHANGED engineVars

(* session.render(): the BrowserSession is handed to the caller. *)
RenderHandle(temp, hasBrowser, pageSet) ==
    /\ mode = "direct" /\ render = NULL
    /\ render' = Rendered("handle", temp, hasBrowser, pageSet)
    /\ args' = [op |-> "render"]
    /\ outcome' = [t |-> "BrowserSession"]
    /\ UNCHANGED <<proxy, cookies, transport, responseObject, extracted, closeCalls>>
    /\ UNCHANGED <<lazy, headers, bridge>>
    /\ UNCHANGED engineVars

(* The caller calls close() on the BrowserSession it holds. *)
HandleClose ==
    /\ render # NULL /\ render.how = "handle"
    /\ Len(render.closers) < MaxCalls
    /\ render' = CloseCalled(render)
    /\ UNCHANGED <<clientVars, lazy, headers, bridge>>
    /\ UNCHANGED engineVars

(* The back-reference of the Response of the render path: session: this.   *)
RenderedResponseSession(temp) == Borrowed

(* A close() goes on after an await.  When the close() of session.request  *)
(* has returned, the Response is made and returned.                        *)
CloseResume(c) ==
    /\ render # NULL /\ c \in 1 .. Len(render.closers) /\ render.closers[c] # "done"
    /\ render' = CloseStep(render, c)
    /\ cookies' = IF render.closers[c] = "cookies" THEN CloseUpdatesJar(cookies, render)
                  ELSE cookies
    /\ outcome' = IF render.how = "request" /\ render'.closers[c] = "done"
                  THEN [t |-> "Response", url |-> RequestUrl, statusCode |-> 200,
                        cookies |-> render.pageCookies, raw |-> render.content,
                        session |-> RenderedResponseSession(render.temp)]
                  ELSE outcome
    /\ UNCHANGED <<proxy, transport, responseObject, extracted, closeCalls, args>>
    /\ UNCHANGED <<lazy, headers, bridge>>
    /\ UNCHANGED engineVars

(* ------------------------- initial states ------------------------------ *)

(* The caller's session is not used directly: it was constructed without   *)
(* a proxy and with an empty jar, and nothing was asked of it.             *)
(* No lazy request was made, nothing is rendered, the session has no       *)
(* headers and the bridge is not loaded.                                   *)
(* The BridgeManager of a new process: no port (port = 0), no server       *)
(* started, no executeRequest under way.                                   *)
BridgeIdle == [port |-> 0, starts |-> 0, calls |-> <<>>]

ServiceIdle ==
    /\ lazy = <<>>
    /\ render = NULL
    /\ headers = <<>>
    /\ bridge = BridgeIdle

ClientIdle ==
    /\ proxy = NoProxy
    /\ cookies = EmptyJar
    /\ transport = <<>>
    /\ responseObject = NULL
    /\ outcome = NULL
    /\ extracted = <<>>
    /\ closeCalls = 0
    /\ args = NULL
    /\ ServiceIdle

(* K descriptors were constructed, each with its own temporary session     *)
(* (TLSRequest's constructor calls _buildSession) or bound to the caller's *)
(* session; no call was made yet.  Session d + 1 is the one constructed    *)
(* for descriptor d.                                                       *)
InitFor(m, n) ==
    /\ mode = m
    /\ K \in 0 .. n
    /\ size \in 0 .. MaxSize
    /\ hasHandler \in BOOLEAN
    /\ raiseException \in [Desc -> BOOLEAN]
    /\ _close \in [Desc -> BOOLEAN]
    /\ session = [d \in Desc |-> IF _close[d] THEN d + 1 ELSE Borrowed]
    /\ response = [d \in Desc |-> NULL]
    /\ exception = [d \in Desc |-> NULL]
    /\ st = [d \in Desc |-> "idle"]
    /\ sentOn = [d \in Desc |-> NoSession]
    /\ nextId = K + 1
    /\ closed = [s \in 0 .. K |-> FALSE]
    /\ destroys = [s \in 0 .. K |-> 0]
    /\ i = 0
    /\ run = "init"
    /\ results = [d \in Desc |-> NULL]
    /\ allResponses = <<>>
    /\ thrown = NULL
    /\ handlerCalls = [d \in Desc |-> 0]
    /\ completed = <<>>
    /\ pending = <<>>
    /\ index = 0
    /\ winner = NoDesc
    /\ yielded = <<>>

HandlerReturns(d) == {HandlerResponse(d), NULL}

InitMap == InitFor("map", MaxK) /\ ClientIdle
NextMap ==
    \/ /\ MapCall
       /\ UNCHANGED <<clientVars, serviceVars>>
    \/ /\ \E d \in Desc, ok \in BOOLEAN : \E h \in HandlerReturns(d) : MapComplete(d, ok, h)
       /\ UNCHANGED <<clientVars, serviceVars>>
    \/ /\ MapResume
       /\ UNCHANGED <<clientVars, serviceVars>>
SpecMap == InitMap /\ [][NextMap]_vars

InitEnum == InitFor("imapEnum", MaxStreamK) /\ ClientIdle
NextEnum ==
    \/ /\ GenStart
       /\ UNCHANGED <<clientVars, serviceVars>>
    \/ /\ \E d \in Desc, ok \in BOOLEAN : \E h \in HandlerReturns(d) : StreamComplete(d, ok, h)
       /\ UNCHANGED <<clientVars, serviceVars>>
    \/ /\ EnumResume
       /\ UNCHANGED <<clientVars, serviceVars>>
    \/ /\ GenNext
       /\ UNCHANGED <<clientVars, serviceVars>>
    \/ /\ GenReturn
       /\ UNCHANGED <<clientVars, serviceVars>>
SpecEnum == InitEnum /\ [][NextEnum]_vars

InitImap == InitFor("imap", MaxStreamK) /\ ClientIdle
NextImap ==
    \/ /\ GenStart
       /\ UNCHANGED <<clientVars, serviceVars>>
    \/ /\ \E d \in Desc, ok \in BOOLEAN : \E h \in HandlerReturns(d) : StreamComplete(d, ok, h)
       /\ UNCHANGED <<clientVars, serviceVars>>
    \/ /\ ImapResume
       /\ UNCHANGED <<clientVars, serviceVars>>
    \/ /\ GenNext
       /\ UNCHANGED <<clientVars, serviceVars>>
    \/ /\ GenReturn
       /\ UNCHANGED <<clientVars, serviceVars>>
SpecImap == InitImap /\ [][NextImap]_vars

(* One call of map, imap or imapEnum whose generator the consumer          *)
(* iterates to the end.  Every send settles in the end, every promise      *)
(* reaction runs, and the consumer keeps asking for the next item.         *)
InitFair ==
    /\ \E m \in {"map", "imap", "imapEnum"} : InitFor(m, MaxStreamK)
    /\ ClientIdle
MapCompletes == \E d \in Desc, ok \in BOOLEAN : \E h \in HandlerReturns(d) : MapComplete(d, ok, h)
StreamCompletes ==
    \E d \in Desc, ok \in BOOLEAN : \E h \in HandlerReturns(d) : StreamComplete(d, ok, h)
NextFair ==
    \/ /\ MapCall
       /\ UNCHANGED <<clientVars, serviceVars>>
    \/ /\ MapCompletes
       /\ UNCHANGED <<clientVars, serviceVars>>
    \/ /\ MapResume
       /\ UNCHANGED <<clientVars, serviceVars>>
    \/ /\ GenStart
       /\ UNCHANGED <<clientVars, serviceVars>>
    \/ /\ StreamCompletes
       /\ UNCHANGED <<clientVars, serviceVars>>
    \/ /\ EnumResume
       /\ UNCHANGED <<clientVars, serviceVars>>
    \/ /\ ImapResume
       /\ UNCHANGED <<clientVars, serviceVars>>
    \/ /\ GenNext
       /\ UNCHANGED <<clientVars, serviceVars>>
Fairness ==
    /\ WF_vars(MapCall /\ UNCHANGED <<clientVars, serviceVars>>)
    /\ WF_vars(MapCompletes /\ UNCHANGED <<clientVars, serviceVars>>)
    /\ WF_vars(MapResume /\ UNCHANGED <<clientVars, serviceVars>>)
    /\ WF_vars(GenStart /\ UNCHANGED <<clientVars, serviceVars>>)
    /\ WF_vars(StreamCompletes /\ UNCHANGED <<clientVars, serviceVars>>)
    /\ WF_vars(EnumResume /\ UNCHANGED <<clientVars, serviceVars>>)
    /\ WF_vars(ImapResume /\ UNCHANGED <<clientVars, serviceVars>>)
    /\ WF_vars(GenNext /\ UNCHANGED <<clientVars, serviceVars>>)
SpecFair == InitFair /\ [][NextFair]_vars /\ Fairness

(* Descriptors that all borrow the caller's session, run through any       *)
(* sequence of operations.                                                 *)
InitSeq ==
    /\ InitFor("direct", MaxSeqK) /\ ClientIdle
    /\ \A d \in Desc : ~_close[d]
NextSeq ==
    \/ /\ MapCall
       /\ UNCHANGED <<clientVars, serviceVars>>
    \/ /\ \E d \in Desc, ok \in BOOLEAN : \E h \in HandlerReturns(d) : MapComplete(d, ok, h)
       /\ UNCHANGED <<clientVars, serviceVars>>
    \/ /\ MapResume
       /\ UNCHANGED <<clientVars, serviceVars>>
    \/ /\ GenStart
       /\ UNCHANGED <<clientVars, serviceVars>>
    \/ /\ \E d \in Desc, ok \in BOOLEAN : \E h \in HandlerReturns(d) : StreamComplete(d, ok, h)
       /\ UNCHANGED <<clientVars, serviceVars>>
    \/ /\ EnumResume
       /\ UNCHANGED <<clientVars, serviceVars>>
    \/ /\ ImapResume
       /\ UNCHANGED <<clientVars, serviceVars>>
    \/ /\ GenNext
       /\ UNCHANGED <<clientVars, serviceVars>>
    \/ /\ GenReturn
       /\ UNCHANGED <<clientVars, serviceVars>>
    \/ /\ \E d \in Desc : SendCall(d)
       /\ UNCHANGED <<clientVars, serviceVars>>
    \/ /\ \E d \in Desc, ok \in BOOLEAN : SendComplete(d, ok)
       /\ UNCHANGED <<clientVars, serviceVars>>
    \/ /\ \E d \in Desc : CallerCloseSession(d)
       /\ UNCHANGED <<clientVars, serviceVars>>
    \/ /\ SchedulerOver
       /\ UNCHANGED <<clientVars, serviceVars>>
    \/ /\ \E m \in {"map", "imap", "imapEnum"}, sz \in 0 .. MaxSize, hh \in BOOLEAN :
              CallScheduler(m, sz, hh)
       /\ UNCHANGED <<clientVars, serviceVars>>
SpecSeq == InitSeq /\ [][NextSeq]_vars

(* Descriptors, owning their session or borrowing the caller's, that the   *)
(* caller sends and closes itself, one send() of a descriptor after the    *)
(* other.                                                                  *)
InitSend ==
    /\ InitFor("direct", MaxSeqK) /\ ClientIdle
    /\ size = 0 /\ ~hasHandler
NextSend ==
    \/ /\ \E d \in Desc : SendCall(d)
       /\ UNCHANGED <<clientVars, serviceVars>>
    \/ /\ \E d \in Desc, ok \in BOOLEAN : SendComplete(d, ok)
       /\ UNCHANGED <<clientVars, serviceVars>>
    \/ /\ \E d \in Desc : CallerCloseSession(d)
       /\ UNCHANGED <<clientVars, serviceVars>>
SpecSend == InitSend /\ [][NextSend]_vars

(* imap and imapEnum over MaxWideK descriptors that own their sessions     *)
(* and keep the default raiseException = true, with windows of 2 and 3     *)
(* and no exception handler.                                               *)
InitWide ==
    /\ \E m \in {"imap", "imapEnum"} : InitFor(m, MaxWideK)
    /\ ClientIdle
    /\ K = MaxWideK /\ size \in {2, 3} /\ ~hasHandler
    /\ \A d \in Desc : _close[d] /\ raiseException[d]
NextWide ==
    \/ /\ GenStart
       /\ UNCHANGED <<clientVars, serviceVars>>
    \/ /\ \E d \in Desc, ok \in BOOLEAN : StreamComplete(d, ok, NULL)
       /\ UNCHANGED <<clientVars, serviceVars>>
    \/ /\ EnumResume
       /\ UNCHANGED <<clientVars, serviceVars>>
    \/ /\ ImapResume
       /\ UNCHANGED <<clientVars, serviceVars>>
    \/ /\ GenNext
       /\ UNCHANGED <<clientVars, serviceVars>>
    \/ /\ GenReturn
       /\ UNCHANGED <<clientVars, serviceVars>>
SpecWide == InitWide /\ [][NextWide]_vars

(* Descriptors are constructed, with and without the caller's session. *)
InitConstruct ==
    /\ InitFor("direct", 0)
    /\ size = 0 /\ ~hasHandler
    /\ ClientIdle
NextConstruct ==
    /\ nextId < K + 1 + MaxCalls
    /\ \E options \in Options, raise \in BOOLEAN, sess \in {NoSession, Borrowed} :
           Construct(options, raise, sess)
SpecConstruct == InitConstruct /\ [][NextConstruct]_vars

(* One session, with or without a proxy of its own, and one descriptor     *)
(* bound to it: requests with and without a proxy, and close().            *)
InitSession ==
    /\ InitFor("direct", 1)
    /\ K = 1 /\ ~_close[0]
    /\ size = 0 /\ ~hasHandler
    /\ proxy \in {NoProxy, HttpHost, Socks6X}
    /\ cookies = EmptyJar
    /\ transport = <<>>
    /\ responseObject = NULL
    /\ outcome = NULL
    /\ extracted = <<>>
    /\ closeCalls = 0
    /\ args = NULL
    /\ ServiceIdle
NextSession ==
    \/ \E p \in Proxies \cup {NoProxy} : SessionRequest(p)
    \/ \E d \in Desc, p \in Proxies \cup {NoProxy} : DescSend(d, p)
    \/ \E d \in Desc : DescSettle(d)
    \/ outcome.t = "pending" /\ \E r \in PlainReplies : Reply(r)
    \/ ReplyFails
    \/ SessionClose
SpecSession == InitSession /\ [][NextSession]_vars

(* A new process in which calls are issued at any time. *)
InitBridge ==
    /\ InitFor("direct", 0)
    /\ size = 0 /\ ~hasHandler
    /\ ClientIdle
NextBridge ==
    \/ ExecuteCall
    \/ \E c \in 1 .. MaxBridgeCalls, p \in OpenPorts : LoadResume(c, p)
    \/ \E c \in 1 .. MaxBridgeCalls : ExecuteResume(c)
SpecBridge == InitBridge /\ [][NextBridge]_vars

(* A session without headers whose header map the caller writes and whose  *)
(* requests are built, in any order.                                       *)
InitHeaders ==
    /\ InitFor("direct", 0)
    /\ size = 0 /\ ~hasHandler
    /\ proxy = NoProxy
    /\ cookies = EmptyJar
    /\ transport = <<>>
    /\ responseObject = NULL
    /\ outcome = NULL
    /\ extracted = <<>>
    /\ closeCalls = 0
    /\ args = NULL
    /\ headers = EmptyDict
    /\ lazy = <<>> /\ render = NULL /\ bridge = BridgeIdle
NextHeaders ==
    \/ \E k \in HeaderKeys, v \in {"0", "1"} : HeadersSet(k, v)
    \/ \E k \in HeaderKeys : HeadersDelete(k)
    \/ \E other \in HeaderObjects : HeadersUpdate(other)
    \/ \E given \in BOOLEAN, perCall \in HeaderObjects, contentType \in ContentTypes :
           BuildRequest(given, perCall, contentType)
SpecHeaders == InitHeaders /\ [][NextHeaders]_vars

(* Lazy requests, each owning its session or borrowing the caller's, that  *)
(* the caller constructs and reads in any order.                           *)
InitLazy ==
    /\ InitFor("direct", MaxSeqK)
    /\ size = 0 /\ ~hasHandler
    /\ raiseException = [d \in Desc |-> LazyRaiseException]
    /\ proxy = NoProxy
    /\ cookies = EmptyJar
    /\ transport = <<>>
    /\ responseObject = NULL
    /\ outcome = NULL
    /\ extracted = <<>>
    /\ closeCalls = 0
    /\ args = NULL
    /\ lazy = [d \in Desc |-> NotMade]
    /\ render = NULL /\ headers = <<>> /\ bridge = BridgeIdle
NextLazy ==
    \/ \E d \in Desc : LazyConstruct(d)
    \/ /\ \E d \in Desc, ok \in BOOLEAN : SendComplete(d, ok)
       /\ UNCHANGED <<clientVars, serviceVars>>
    \/ \E d \in Desc : LazySent(d)
    \/ \E d \in Desc, a \in Accessors : LazyGet(d, a)
    \/ \E d \in Desc, a \in Accessors : LazyGot(d, a)
SpecLazy == InitLazy /\ [][NextLazy]_vars

(* One session, temporary or not, and one rendering through it: a request  *)
(* with the render option, or a BrowserSession the caller closes.          *)
InitRender ==
    /\ InitFor("direct", 0)
    /\ size = 0 /\ ~hasHandler
    /\ proxy = NoProxy
    /\ cookies \in {EmptyJar, {Cookie("a", "x.org", "0")}}
    /\ transport = <<>>
    /\ responseObject = NULL
    /\ outcome = NULL
    /\ extracted = <<>>
    /\ closeCalls = 0
    /\ args = NULL
    /\ ServiceIdle
NextRender ==
    \/ \E temp \in BOOLEAN, hasBrowser \in BOOLEAN, pageSet \in PageSets :
           RenderRequest(temp, hasBrowser, pageSet)
    \/ \E temp \in BOOLEAN, hasBrowser \in BOOLEAN, pageSet \in PageSets :
           RenderHandle(temp, hasBrowser, pageSet)
    \/ HandleClose
    \/ \E c \in 1 .. MaxCalls : CloseResume(c)
SpecRender == InitRender /\ [][NextRender]_vars

(* A jar holding any of the cookies of two names under two domains, and    *)
(* lookups in it.                                                          *)
InitJar ==
    /\ InitFor("direct", 0)
    /\ size = 0 /\ ~hasHandler
    /\ proxy = NoProxy
    /\ cookies \in SUBSET {Cookie(n, d, "1") : n \in CookieNames, d \in CookieDomains}
    /\ transport = <<>>
    /\ responseObject = NULL
    /\ outcome = NULL
    /\ extracted = <<>>
    /\ closeCalls = 0
    /\ args = NULL
    /\ ServiceIdle
NextJar ==
    \E name \in CookieNames, defaultValue \in {undefined, "none"},
       domain \in CookieDomains \cup {undefined}, path \in {undefined, "/"} :
        JarGet(name, defaultValue, domain, path)
SpecJar == InitJar /\ [][NextJar]_vars

(* One request on a session whose jar is empty or not, and the reply of    *)
(* the transport to it, of one hop or of several.                          *)
InitReply ==
    /\ InitFor("direct", 0)
    /\ size = 0 /\ ~hasHandler
    /\ proxy = NoProxy
    /\ cookies \in {EmptyJar, {Cookie("a", "x.org", "0"), Cookie("a", "y.org", "0")}}
    /\ transport = <<>>
    /\ responseObject = NULL
    /\ outcome = NULL
    /\ extracted = <<>>
    /\ closeCalls = 0
    /\ args = NULL
    /\ ServiceIdle
NextReply ==
    \/ transport = <<>> /\ SessionRequest(NoProxy)
    \/ outcome.t = "pending" /\ \E r \in Replies : Reply(r)
    \/ ReplyFails
SpecReply == InitReply /\ [][NextReply]_vars

(* ------------------------------ claims --------------------------------- *)

RECURSIVE SumTo(_, _)
SumTo(f, n) == IF n < 0 THEN 0 ELSE f[n] + SumTo(f, n - 1)
TotalDestroys == SumTo(destroys, nextId - 1)

Owned(d) == _close[d]

(* C1: every completed send() of a descriptor that owns its session has    *)
(* caused exactly one destroy notification for the session it used, and    *)
(* none before it completed; once K owned descriptors have all been run    *)
(* through map, exactly K notifications were sent in total.                *)
C1_OwnedDestroyedOnce ==
    /\ \A d \in Desc : Owned(d) /\ Done(d) =>
           /\ destroys[sentOn[d]] = 1
           /\ closed[sentOn[d]]
           /\ session[d] = NoSession
    /\ \A d \in Desc : Owned(d) /\ st[d] = "inflight" => destroys[sentOn[d]] = 0
    /\ (\A d \in Desc : Owned(d) /\ Done(d)) => TotalDestroys = K
C1_Witness ==
    /\ K = 3 /\ \A d \in Desc : Owned(d) /\ Done(d)
    /\ \E d \in Desc : st[d] = "ok"
    /\ \E d \in Desc : st[d] = "failed" /\ exception[d] = Error(d)
    /\ \E d \in Desc : st[d] = "failed" /\ thrown = Error(d)

(* C2: the session the caller supplied is never closed by a descriptor or  *)
(* a scheduler: whatever send, closeSession, map, imap and imapEnum        *)
(* operations ran over the descriptors bound to it, and however their      *)
(* calls ended, it is open, no destroy notification was sent for its id,   *)
(* and the descriptors are still bound to it.                              *)
C2_BorrowedNeverClosed ==
    /\ ~closed[Borrowed]
    /\ destroys[Borrowed] = 0
    /\ \A d \in Desc : ~Owned(d) => session[d] = Borrowed
C2_Witness ==
    /\ K = 2 /\ mode = "imapEnum" /\ run = "done"
    /\ \A d \in Desc : ~Owned(d) /\ Done(d)
    /\ \E d \in Desc : response[d] = Response(d) /\ exception[d] = Error(d) /\ st[d] = "failed"
    /\ \E d \in Desc : st[d] = "ok"

(* C3 (as claimed): once map has rejected and nothing is in flight, every  *)
(* owned session constructed for a descriptor of the list has received     *)
(* exactly one destroy notification.                                       *)
C3_AbandonedOwnedDestroyed ==
    (run = "rejected" /\ InFlight = {}) =>
        \A d \in Desc : Owned(d) => destroys[d + 1] = 1

(* C4: the outcomes map has collected are in input order, within and       *)
(* across windows; when every call succeeded, map returns K Responses,     *)
(* the i-th being the Response of the i-th descriptor.                     *)
C4_MapOutputInInputOrder ==
    /\ \A a, b \in 1 .. Len(allResponses) :
           a < b => allResponses[a].req < allResponses[b].req
    /\ (run = "resolved" /\ \A d \in Desc : st[d] = "ok") =>
           allResponses = [k \in 1 .. K |-> Response(k - 1)]
C4_Witness ==
    /\ run = "resolved" /\ K = 3 /\ size = 2
    /\ completed = <<1, 0, 2>>
    /\ Len(allResponses) = 3

(* C5 (as claimed): map without an exception handler returns K outcomes,   *)
(* a FailedResponse at the position of every descriptor with               *)
(* raiseException = false whose call failed.                               *)
C5_FailedResponseInSlot ==
    (run = "resolved" /\ ~hasHandler) =>
        /\ Len(allResponses) = K
        /\ \A d \in Desc : st[d] = "failed" => allResponses[d + 1] = FailedResponse(d)

(* C6 (as claimed): with an exception handler, the handler has been        *)
(* invoked exactly once for every descriptor with raiseException = false   *)
(* whose call failed.                                                      *)
C6_HandlerInvokedOnce ==
    hasHandler =>
        \A d \in Desc : (st[d] = "failed" /\ ~raiseException[d]) => handlerCalls[d] = 1

(* C7: a failed call of a descriptor with raiseException = true rejects    *)
(* map with the error of the first such call; no descriptor of a later     *)
(* window is sent; the calls in flight in the same window are not          *)
(* cancelled and, once complete, have their owned sessions destroyed.      *)
C7_RaisePropagates ==
    /\ \A d \in Desc : (st[d] = "failed" /\ raiseException[d]) => run = "rejected"
    /\ run = "rejected" =>
        /\ \E d \in Batch(i) : thrown = Error(d) /\ raiseException[d] /\ st[d] = "failed"
        /\ \A d \in Desc : d >= i + batchSize => st[d] = "idle"
        /\ \A d \in Batch(i) :
               /\ st[d] = "inflight" => ENABLED MapComplete(d, TRUE, NULL)
               /\ (Done(d) /\ Owned(d)) => destroys[sentOn[d]] = 1
C7_Witness ==
    /\ run = "rejected" /\ thrown = Error(0)
    /\ K = 3 /\ size = 2
    /\ completed = <<0, 1>> /\ st[2] = "idle"
    /\ Owned(1) /\ destroys[sentOn[1]] = 1

WindowOf(d) == d \div batchSize

(* C8: map runs the descriptors in windows of batchSize: a descriptor of   *)
(* a later window is not sent before every descriptor of the earlier       *)
(* windows has completed, and never more than batchSize calls are in       *)
(* flight.                                                                 *)
C8_MapWindows ==
    /\ Cardinality(InFlight) <= batchSize
    /\ \A d, e \in Desc :
           (WindowOf(d) < WindowOf(e) /\ st[e] # "idle") => Done(d)
C8_Witness ==
    /\ K = 3 /\ size = 2 /\ st[2] = "inflight"
    /\ completed = <<1, 0>>

InOutput(e) == \E k \in 1 .. Len(allResponses) : allResponses[k].req = e
CapturedFailure(d) == st[d] = "failed" /\ ~raiseException[d]

(* C9 (as claimed): when map returns, every descriptor that shared a       *)
(* window with a captured failure has completed and has its outcome in     *)
(* the output (its Response, or for its own captured failure the           *)
(* handler's result or a FailedResponse), and every later window was       *)
(* processed.                                                              *)
C9_SiblingsUnaffected ==
    run = "resolved" =>
        \A d \in Desc : CapturedFailure(d) =>
            /\ \A e \in Desc : Done(e)
            /\ \A e \in Desc :
                   (e # d /\ WindowOf(e) = WindowOf(d)) =>
                       (InOutput(e) \/ (hasHandler /\ handlerCalls[e] = 1))

YieldedIndices == {yielded[k].index : k \in 1 .. Len(yielded)}

(* C10 (as claimed): when imapEnum has finished, it has yielded exactly K  *)
(* pairs, their indices are exactly 0 .. K-1 with none twice, and each     *)
(* pair carries the outcome of the descriptor at its index.                *)
C10_EnumIndexSetExact ==
    (mode = "imapEnum" /\ run = "done") =>
        /\ Len(yielded) = K
        /\ YieldedIndices = Desc
        /\ \A k \in 1 .. Len(yielded) : yielded[k].response = results[yielded[k].index]

YieldedFor(d) == {k \in 1 .. Len(yielded) : yielded[k].req = d}

(* C11 (as claimed): when imap without an exception handler has finished,  *)
(* it has yielded exactly K outcomes, exactly one per descriptor: the      *)
(* Response of a call that succeeded, a FailedResponse for a call that     *)
(* failed, whatever the raiseException flags.                              *)
C11_ImapOneOutcomeEach ==
    (mode = "imap" /\ run = "done" /\ ~hasHandler) =>
        /\ Len(yielded) = K
        /\ \A d \in Desc :
               /\ Cardinality(YieldedFor(d)) = 1
               /\ \A k \in YieldedFor(d) :
                      yielded[k] = IF st[d] = "ok" THEN Response(d) ELSE FailedResponse(d)

PendingSet == {pending[k] : k \in 1 .. Len(pending)}

(* C12: in imap never more than windowSize descriptors are in flight: the  *)
(* calls in flight are entries of pending, pending holds at most           *)
(* windowSize entries and none twice, and every descriptor that was        *)
(* admitted and is no longer in pending has completed, so that each        *)
(* admission beyond the initial batch follows the removal of a completed   *)
(* entry.                                                                  *)
C12_ImapSlidingWindow ==
    mode = "imap" =>
        /\ Cardinality(InFlight) <= windowSize
        /\ Len(pending) <= windowSize
        /\ Cardinality(PendingSet) = Len(pending)
        /\ InFlight \subseteq PendingSet
        /\ \A d \in Desc : (d < index /\ d \notin PendingSet) => Done(d)
        /\ index <= windowSize + Cardinality({d \in Desc : Done(d) /\ d \notin PendingSet})
C12_Witness ==
    /\ mode = "imap" /\ K = 2 /\ size = 1
    /\ Done(0) /\ st[1] = "inflight"
    /\ pending = <<1>> /\ Len(yielded) = 1

(* C13 (as claimed): in imapEnum never more than windowSize descriptors    *)
(* are in flight.                                                          *)
C13_EnumWindowBound ==
    mode = "imapEnum" => Cardinality(InFlight) <= windowSize

NoDuplicates(q) == \A a, b \in 1 .. Len(q) : a # b => q[a] # q[b]

(* C14: imap and imapEnum admit the descriptors in submission order and    *)
(* each at most once: the descriptors whose send has started are always    *)
(* exactly the first index descriptors of the list, the entries of pending *)
(* are among them, and no descriptor completes twice.                      *)
C14_FifoAdmission ==
    mode \in {"imap", "imapEnum"} =>
        /\ index <= K
        /\ \A d \in Desc : st[d] # "idle" <=> d < index
        /\ \A d \in PendingSet : d < index
        /\ NoDuplicates(completed)
C14_Witness ==
    /\ mode = "imapEnum" /\ K = 2 /\ size = 1
    /\ completed = <<0>> /\ st[1] = "inflight" /\ index = 2

(* C15 (as claimed): imap yields outcomes in the order the calls           *)
(* completed: of two yielded outcomes, the one yielded first belongs to    *)
(* the call that completed first.                                          *)
C15_ImapCompletionOrder ==
    mode = "imap" =>
        \A a, b \in 1 .. Len(yielded) :
            a < b => PosIn(completed, yielded[a].req) < PosIn(completed, yielded[b].req)

(* C16 (as claimed): when imap has finished, every failed call was         *)
(* delivered as an outcome: its FailedResponse was yielded, or the         *)
(* exception handler was invoked for it.                                   *)
C16_StreamFailuresDelivered ==
    (mode = "imap" /\ run = "done") =>
        \A d \in Desc : st[d] = "failed" =>
            \/ \E k \in 1 .. Len(yielded) : yielded[k] = FailedResponse(d)
            \/ hasHandler /\ handlerCalls[d] = 1

LiveOwned == {d \in Desc : Owned(d) /\ st[d] # "idle" /\ destroys[sentOn[d]] = 0}

(* C17 (as claimed): in imap and imapEnum the owned sessions that have     *)
(* issued a call and are not yet destroyed never number more than          *)
(* windowSize.                                                             *)
C17_LiveOwnedSessionsBound ==
    mode \in {"imap", "imapEnum"} => Cardinality(LiveOwned) <= windowSize

(* C18: a send() of a descriptor with raiseException = false whose call    *)
(* fails does not throw: it resolves, records the error in the exception   *)
(* field and leaves the response field as it was; a recorded error is      *)
(* never cleared afterwards.                                               *)
C18_CapturedErrorKept ==
    [][mode = "direct" =>
          \A d \in Desc :
              /\ (st[d] = "inflight" /\ st'[d] = "failed" /\ ~raiseException[d]) =>
                     /\ thrown' = NULL
                     /\ exception'[d] = Error(d)
                     /\ response'[d] = response[d]
              /\ exception[d] = Error(d) => exception'[d] = Error(d)]_vars
C18_Witness ==
    /\ mode = "direct"
    /\ \E d \in Desc :
           /\ st[d] = "failed" /\ ~raiseException[d]
           /\ exception[d] = Error(d) /\ response[d] = NULL /\ thrown = NULL
    /\ \E d \in Desc : st[d] = "ok" /\ exception[d] = Error(d)

(* C19 (as claimed): a descriptor never has both its response and its      *)
(* exception set.                                                          *)
C19_AtMostOneOutcome ==
    \A d \in Desc : ~(response[d] # NULL /\ exception[d] # NULL)

(* C20: every send() of an owned descriptor runs on a session that no      *)
(* earlier send used: when the send starts the descriptor is bound to a    *)
(* session that is open and was never destroyed, a newly constructed one   *)
(* if the descriptor had none; when the send completes that session has    *)
(* been destroyed exactly once and the descriptor's session reference is   *)
(* null; the count of destroy notifications of a session never goes down   *)
(* and never exceeds one.                                                  *)
C20_FreshSessionPerSend ==
    [][mode = "direct" =>
          /\ \A d \in Desc : (Owned(d) /\ st[d] # "inflight" /\ st'[d] = "inflight") =>
                 /\ session'[d] = sentOn'[d]
                 /\ ~closed'[sentOn'[d]] /\ destroys'[sentOn'[d]] = 0
                 /\ session[d] = NoSession => (sentOn'[d] = nextId /\ nextId' = nextId + 1)
          /\ \A d \in Desc : (Owned(d) /\ st[d] = "inflight" /\ st'[d] # "inflight") =>
                 /\ session'[d] = NoSession
                 /\ closed'[sentOn[d]] /\ destroys'[sentOn[d]] = 1
          /\ \A s \in 0 .. (nextId - 1) :
                 destroys[s] <= destroys'[s] /\ destroys'[s] <= 1]_vars
C20_Witness ==
    /\ mode = "direct" /\ K = 2
    /\ Owned(0) /\ Done(0) /\ sentOn[0] = K + MaxRebuilds
    /\ \A s \in {1} \cup ((K + 1) .. (K + MaxRebuilds)) : destroys[s] = 1
    /\ Owned(1) /\ st[1] = "idle" /\ session[1] = 2 /\ destroys[2] = 0

(* The session-construction options with a defined value in the latest   *)
(* constructor call.                                                       *)
SessionOptionsGiven ==
    {key \in OptionKeys \cap TLSSessionOptions : args.options[key] = "defined"}

ConstructorCalled == args # NULL /\ args.op = "new TLSRequest"

(* C21 (as claimed): a constructor call with a session and a             *)
(* session-construction option with a defined value raises the TypeError,  *)
(* whatever raiseException is, and a call that raises creates no session.  *)
C21_ConflictAlwaysRaises ==
    /\ [](ConstructorCalled /\ args.session # NoSession /\ SessionOptionsGiven # {}
             => outcome.t = "TypeError")
    /\ [][(outcome'.t = "TypeError" /\ outcome' # outcome) => UNCHANGED sessVars]_vars

(* The latest operation is a request through the session, sent by the    *)
(* caller directly or by descriptor d.                                     *)
Requested == args # NULL /\ args.op \in {"request", "send"}
SentBy(d) == args # NULL /\ args.op = "send" /\ args.req = d

(* C22 (as claimed): when the send() of a descriptor has failed on the     *)
(* validation of the proxy, the ProxyFormatException was thrown to the     *)
(* caller of send(), whatever raiseException is.                           *)
C22_ProxyErrorAlwaysRaises ==
    \A d \in Desc :
        (SentBy(d) /\ st[d] = "failed" /\ outcome.t = "ProxyFormatException")
            => thrown = Error(d)

(* scheme://[user:pass@]host[:port] with a supported scheme, a host that   *)
(* is not empty and a port of digits.                                      *)
HostChars(str) ==
    Len(str) >= 1 /\ \A j \in 1 .. Len(str) : str[j] \notin {":", "@", "/", "\n"}
ProxyFormat(str) ==
    \E scheme \in SUPPORTED_PROXIES :
        /\ StartsWith(str, scheme \o <<":", "/", "/">>)
        /\ LET rest == Suffix(str, Len(scheme) + 3)
           IN \E a \in 0 .. Len(rest), b \in 0 .. Len(rest) :
                 /\ a <= b
                 /\ a = 0 \/ Credentials(Prefix(rest, a))
                 /\ HostChars(SubSeq(rest, a + 1, b))
                 /\ b = Len(rest) \/ Port(Suffix(rest, b))

(* C23 (as claimed): a request whose proxy, of the call or of the session, *)
(* is not of the form scheme://[user:pass@]host[:port] fails with the      *)
(* ProxyFormatException, and no payload with such a proxy is ever posted   *)
(* to the bridge.                                                          *)
C23_MalformedProxyNeverSent ==
    /\ (Requested /\ proxyUrl(args.proxy) # NoProxy /\ ~ProxyFormat(proxyUrl(args.proxy)))
          => outcome.t = "ProxyFormatException"
    /\ \A k \in 1 .. Len(transport) :
          transport[k].proxyUrl = NoProxy \/ ProxyFormat(transport[k].proxyUrl)

(* The reply of the latest request has been decoded; its hops. *)
Replied == responseObject # NULL
RepliedHops ==
    IF responseObject.isHistory THEN responseObject.history
    ELSE <<responseObject.response>>
ZeroHops == {k \in 1 .. Len(RepliedHops) : RepliedHops[k].status = 0}

HopUrls == [k \in 1 .. Len(outcome.history) |-> outcome.history[k].url] \o <<outcome.url>>

(* C25 (as claimed): the Response of a history of N >= 1 hops is built     *)
(* from the last hop, its history holds the N - 1 others in chain order,   *)
(* the first hop's URL is the request's and the URL of every later hop is  *)
(* the Location header of the hop before it.                               *)
C25_HopUrlsFromLocation ==
    (Replied /\ responseObject.isHistory /\ outcome.t = "Response") =>
        LET N == Len(RepliedHops) IN
        /\ Len(outcome.history) = N - 1
        /\ outcome.statusCode = RepliedHops[N].status
        /\ outcome.cookies = ExtractCookiesToJar(EmptyJar, RepliedHops[N].setCookie)
        /\ \A k \in 1 .. (N - 1) :
              /\ outcome.history[k].statusCode = RepliedHops[k].status
              /\ outcome.history[k].cookies =
                     ExtractCookiesToJar(EmptyJar, RepliedHops[k].setCookie)
        /\ HopUrls[1] = RequestUrl
        /\ \A k \in 2 .. N : HopUrls[k] = RepliedHops[k - 1].Location

(* The cookies the hops of a reply set, hop by hop and string by string:   *)
(* the places <<k, j>> of the valid Set-Cookie strings, and the last place *)
(* that sets a key.                                                        *)
Places(resps) ==
    {pl \in (1 .. Len(resps)) \X (1 .. 2) :
        /\ pl[2] <= Len(resps[pl[1]].setCookie)
        /\ resps[pl[1]].setCookie[pl[2]] # InvalidCookie}
CookieAt(resps, pl) == resps[pl[1]].setCookie[pl[2]]
Later(pl, ql) == pl[1] < ql[1] \/ (pl[1] = ql[1] /\ pl[2] < ql[2])
LastPlaces(resps) ==
    {pl \in Places(resps) :
        \A ql \in Places(resps) :
            CookieKey(CookieAt(resps, ql)) = CookieKey(CookieAt(resps, pl))
                => ~Later(pl, ql)}

(* C26: a request whose reply is a history and that succeeds leaves in the *)
(* session's jar a cookie for every key any hop set, intermediate hops     *)
(* included, and every cookie the jar held before: unchanged when no hop   *)
(* set its key.                                                            *)
C26_JarHoldsEveryHopsCookies ==
    [][(outcome.t = "pending" /\ outcome'.t = "Response" /\ responseObject'.isHistory) =>
          LET resps == responseObject'.history IN
          /\ \A pl \in Places(resps) :
                \E e \in cookies' : CookieKey(e) = CookieKey(CookieAt(resps, pl))
          /\ \A e \in cookies :
                \/ e \in cookies'
                \/ \E pl \in Places(resps) : CookieKey(CookieAt(resps, pl)) = CookieKey(e)
          /\ \A e \in cookies' :
                \/ e \in cookies
                \/ \E pl \in Places(resps) : CookieAt(resps, pl) = e]_vars

(* A cookie of an intermediate hop, one of the final hop and one held      *)
(* before are in the jar together.                                         *)
C26_Witness ==
    /\ Replied /\ responseObject.isHistory /\ outcome.t = "Response"
    /\ Len(RepliedHops) = 2
    /\ RepliedHops[1].setCookie = <<Cookie("b", "x.org", "1")>>
    /\ RepliedHops[2].setCookie = <<InvalidCookie, Cookie("a", "y.org", "1")>>
    /\ cookies = {Cookie("a", "x.org", "0"), Cookie("a", "y.org", "1"),
                  Cookie("b", "x.org", "1")}

(* C27: when a request succeeds, cookie extraction ran once for every hop  *)
(* of the reply, in chain order, and for every key the hops set the jar    *)
(* holds the value that was set last.                                      *)
C27_LaterHopWins ==
    (Replied /\ outcome.t = "Response") =>
        /\ extracted = [k \in 1 .. Len(RepliedHops) |-> k]
        /\ \A pl \in LastPlaces(RepliedHops) : CookieAt(RepliedHops, pl) \in cookies
        /\ \A e, f \in cookies : CookieKey(e) = CookieKey(f) => e = f

(* Two hops set the cookie of one name, domain and path. *)
C27_Witness ==
    /\ Replied /\ responseObject.isHistory /\ outcome.t = "Response"
    /\ Len(RepliedHops) = 2
    /\ RepliedHops[1].setCookie = <<Cookie("a", "x.org", "2"), Cookie("a", "x.org", "3")>>
    /\ RepliedHops[2].setCookie = <<Cookie("a", "x.org", "1")>>
    /\ Cookie("a", "x.org", "1") \in cookies
    /\ extracted = <<1, 2>>

(* The latest operation is a lookup by name alone. *)
GotByName ==
    /\ args # NULL /\ args.op = "get"
    /\ args.domain = undefined /\ args.path = undefined
NamedCookies == {c \in cookies : c.name = args.name}

(* C28 (as claimed): get(name) raises CookieConflictError when the jar     *)
(* holds several cookies of the name; when it holds none it returns the    *)
(* default if one was given and raises another error otherwise.            *)
C28_AmbiguousAndAbsentDiffer ==
    GotByName =>
        /\ Cardinality(NamedCookies) >= 2 => outcome.t = "CookieConflictError"
        /\ (NamedCookies = {} /\ args.defaultValue # undefined)
              => outcome = [t |-> "returned", value |-> args.defaultValue]
        /\ (NamedCookies = {} /\ args.defaultValue = undefined) => outcome.t = "Error"

(* C29 (as claimed): a closed session stays closed, and no step taken     *)
(* while it is closed posts a request of it to the bridge or leaves a      *)
(* request of it pending.                                                  *)
C29_ClosedSessionSendsNothing ==
    [][closed[Borrowed] =>
          /\ closed'[Borrowed]
          /\ transport' = transport
          /\ outcome'.t = "pending" => outcome.t = "pending"]_vars

(* C30: the bridge is notified of the session's destruction at most once,  *)
(* however often close() is called, and a close() of a closed session      *)
(* changes nothing (but the count of the calls kept here).                 *)
C30_CloseIdempotent ==
    /\ [](destroys[Borrowed] <= 1 /\ (closeCalls >= 1 <=> closed[Borrowed]))
    /\ [][(closed[Borrowed] /\ closeCalls' # closeCalls) =>
             UNCHANGED <<engineVars, serviceVars, proxy, cookies, transport,
                         responseObject, outcome, extracted, args>>]_vars

(* close() was called twice, the second time on the closed session. *)
C30_Witness ==
    closeCalls >= 2 /\ closed[Borrowed] /\ destroys[Borrowed] = 1

C33_TemporarySessionNotReferenced ==
    (render # NULL /\ render.how = "request" /\ outcome.t = "Response") =>
        outcome.session = (IF render.temp THEN NoSession ELSE Borrowed)

(* C38: for any number of close() calls on a BrowserSession, the context   *)
(* and the browser are closed at most once and the page's cookies are      *)
(* copied into the session at most once.                                   *)
C38_CloseReleasesOnce ==
    render # NULL =>
        /\ render.updates <= 1
        /\ render.contextCloses <= 1
        /\ render.browserCloses <= 1

(* The outcome the send of descriptor d recorded. *)
Recorded(d, a) ==
    IF a = "getResponse" THEN (IF st[d] = "ok" THEN Response(d) ELSE NULL)
    ELSE (IF st[d] = "failed" THEN Error(d) ELSE NULL)

(* C32: a lazy request is sending from its construction on; complete is    *)
(* false until the send has finished and stays true; an accessor returns   *)
(* only after the send has finished, with the recorded outcome; no error   *)
(* is raised from the lazy request; and a session it owns has been         *)
(* destroyed, once, when the send has finished.                            *)
C32_LazySendsAtOnceAndRecords ==
    /\ [](/\ thrown = NULL
          /\ \A d \in Desc :
                /\ lazy[d].made => (st[d] # "idle" /\ sentOn[d] # NoSession)
                /\ lazy[d]._complete => Done(d)
                /\ (lazy[d].made /\ Done(d) /\ _close[d]) =>
                      /\ session[d] = NoSession
                      /\ closed[sentOn[d]] /\ destroys[sentOn[d]] = 1)
    /\ [][\A d \in Desc :
             /\ lazy[d]._complete => lazy'[d]._complete
             /\ \A a \in Accessors :
                   (a \in lazy[d].waiting /\ a \notin lazy'[d].waiting) =>
                       /\ Done(d)
                       /\ outcome' = [t |-> a, req |-> d, value |-> Recorded(d, a)]]_vars

(* A failed send of a lazy request owning its session, read afterwards. *)
C32_Witness ==
    \E d \in Desc :
        /\ lazy[d]._complete /\ st[d] = "failed" /\ _close[d]
        /\ outcome = [t |-> "getException", req |-> d, value |-> Error(d)]

(* The entries among es whose key spells the name n; the key and the      *)
(* value a header map reports for the name n.                              *)
Named(es, n) == SelectSeq(es, LAMBDA e : toLowerCase(e[1]) = n)
KeyOf(store, n) ==
    IF \E k \in DictKeys(store) : toLowerCase(k) = n
    THEN CHOOSE k \in DictKeys(store) : toLowerCase(k) = n
    ELSE undefined
Written == IF args'.op = "set" THEN << <<args'.key, args'.value>> >> ELSE args'.headers

(* A step of set, update or delete on the session's header map: get is     *)
(* case-insensitive and returns the value last set under the name, size    *)
(* counts the names, and the key reported for a written name is the first  *)
(* casing since the name was absent (firstSeen) or the last casing set.    *)
DictStepKeeps(firstSeen) ==
    args'.op \in {"set", "update", "delete"} =>
        /\ \A k \in HeaderKeys : DictGet(headers', k) = DictGet(headers', toLowerCase(k))
        /\ DictSize(headers') = Cardinality({toLowerCase(k) : k \in DictKeys(headers')})
        /\ Cardinality(DictKeys(headers')) = DictSize(headers')
        /\ \A n \in {toLowerCase(k) : k \in HeaderKeys} :
              IF args'.op = "delete"
              THEN IF n = toLowerCase(args'.key)
                   THEN KeyOf(headers', n) = undefined /\ DictGet(headers', n) = undefined
                   ELSE KeyOf(headers', n) = KeyOf(headers, n)
                        /\ DictGet(headers', n) = DictGet(headers, n)
              ELSE IF Named(Written, n) = <<>>
                   THEN KeyOf(headers', n) = KeyOf(headers, n)
                        /\ DictGet(headers', n) = DictGet(headers, n)
                   ELSE LET es == Named(Written, n)
                        IN  /\ DictGet(headers', n) = es[Len(es)][2]
                            /\ KeyOf(headers', n) =
                                  IF ~firstSeen THEN es[Len(es)][1]
                                  ELSE IF KeyOf(headers, n) # undefined
                                       THEN KeyOf(headers, n) ELSE es[1][1]

(* C34 as claimed: the header map is case-insensitive and reports for a    *)
(* name the casing used the first time it was set since it was absent.     *)
C34_FirstSeenCasing == [][DictStepKeeps(TRUE)]_vars

(* C34: the header map is case-insensitive (get returns the value last set *)
(* under any casing of the name, size counts names up to case) and reports *)
(* for a name the casing used the last time it was set.                    *)
C34_LastSetCasing == [][DictStepKeeps(FALSE)]_vars

(* A name set under one casing was set again under another. *)
C34_Witness ==
    /\ args # NULL /\ args.op = "set" /\ args.key = "accept"
    /\ outcome.t = "done" /\ KeyOf(outcome.was, "accept") = "Accept"
    /\ KeyOf(headers, "accept") = "accept"

C36_BuildRequestKeepsSessionHeaders ==
    [][args'.op = "buildRequest" => headers' = headers]_vars

(* C37: the bridge's server is started at most once, and all the calls    *)
(* post their requests to the same port.                                   *)
C37_BridgeLoadedOnce ==
    /\ bridge.starts <= 1
    /\ \A c, e \in 1 .. Len(bridge.calls) :
          (bridge.calls[c].pc = "fetch" /\ bridge.calls[e].pc = "fetch") =>
              bridge.calls[c].port = bridge.calls[e].port

(* C39: a call that fails with a client-transport error leaves the         *)
(* session's cookie jar as it was before the call.                         *)
C39_FailedCallKeepsJar ==
    [][(outcome.t = "pending" /\ outcome'.t = "ClientException") => cookies' = cookies]_vars

(* C40: the schedulers terminate: map resolves or rejects, and a          *)
(* generator iterated to the end finishes, and when it has finished every  *)
(* descriptor was admitted and no admitted call is still pending.          *)
C40_SchedulersTerminate ==
    /\ <>(run \in {"resolved", "rejected", "done"})
    /\ [](run = "done" => (index = K /\ InFlight = {}))

====
